---- MODULE Spec2Model ----
(***************************************************************************)
(* A model of groupcache: the LRU engine (lru/lru.go), the cache tier and  *)
(* the Group (groupcache.go), the single-flight coordinator and the        *)
(* consistent-hash ring with its HTTP pool (singleflight.go,               *)
(* consistenthash.go, http.go).                                            *)
(***************************************************************************)
EXTENDS Integers, Sequences, FiniteSets, TLC

(***************************************************************************)
(* Bounds of the model.                                                    *)
(***************************************************************************)
\* operations applied to the stand-alone LRU engine / cache tier
MaxOps == 5
\* largest MaxEntries the stand-alone LRU engine is built with
MaxMaxEntries == 2
\* goroutines calling Group.Get concurrently
NumThreads == 2
\* Group.Get calls made in one run
MaxGets == 3
\* largest number of replicas (virtual nodes per peer) of the stand-alone ring
MaxReplicas == 2
\* largest hash value of the stand-alone ring's hash functions
MaxHash == 2
\* Set and PickPeer calls made on the HTTPPool in one run
MaxPoolCalls == 3
\* NewGroup and GetGroup calls made in one run
MaxRegCalls == 4
\* populateCache calls made in one run
MaxSweeps == 3

\* keys: Go strings, costed by their length
Keys == {"a", "bb", "ccc"}
\* values of the stand-alone engine and tier: byte payloads of different lengths
Values == {<<1>>, <<2, 2>>}

(***************************************************************************)
(* State.                                                                  *)
(***************************************************************************)
VARIABLES
    \* ---- stand-alone LRU engine (lru.Cache) ----
    lru,        \* the lru.Cache under test
    evicted,    \* OnEvicted invocations made by the last operation, in order
    lastOp,     \* the last operation applied to the engine
    clock,      \* number of operations applied so far
    lastUse,    \* key -> clock value of its last Add / Get hit (0: never)
    \* ---- stand-alone cache tier (groupcache cache) ----
    tier,       \* the cache under test
    tierOp,     \* the last operation applied to the tier
    \* ---- a Group and the goroutines calling Group.Get ----
    cacheBytes, \* Group.cacheBytes, the byte budget of both tiers
    mainCache,  \* Group.mainCache
    hotCache,   \* Group.hotCache
    stats,      \* Group.Stats
    gpeers,     \* Group.peers: "nil", "NoPeers" or "pool"
    portPicker, \* whether a peer picker is registered (peers.go portPicker)
    pool,       \* the HTTPPool the registered picker returns
    sfmu,       \* singleflight Group.mu: 0 when free, else the holder
    sfm,        \* singleflight Group.m: key -> call
    calls,      \* the call structs allocated so far: [val, err, done]
    pc,         \* where each goroutine is
    loc,        \* each goroutine's locals, its sink and its result
    serial,     \* the user loader's state: how often it has produced a value
    hist,       \* what has happened so far (for the properties only)
    \* ---- a stand-alone consistent-hash ring (consistenthash.Map) ----
    ring,       \* the Map under test
    ringOp,     \* the last operation applied to the ring
    \* ---- an HTTPPool under concurrent Set and PickPeer ----
    hp,         \* the HTTPPool
    hpmu,       \* HTTPPool.mu: 0 when free, else the holder
    hpc,        \* where each goroutine using the pool is
    hloc,       \* each such goroutine's arguments, locals and result
    hhist,      \* the pool's complete membership and the calls made (for the properties)
    \* ---- the registry of groups (groupcache.go mu, groups) ----
    groups,     \* the map groups: name -> Group
    regmu,      \* the RWMutex mu: its writer (0: none) and its readers
    rpc,        \* where each goroutine using the registry is
    rloc,       \* each such goroutine's arguments, locals and result
    rhist,      \* the hooks registered, the groups created and first registered
    gstate      \* each created Group's peersOnce and peers

lruVars == <<lru, evicted, lastOp, clock, lastUse>>
tierVars == <<tier, tierOp>>
groupVars == <<cacheBytes, mainCache, hotCache, stats, gpeers, portPicker, pool,
               sfmu, sfm, calls, pc, loc, serial, hist>>
ringVars == <<ring, ringOp>>
poolVars == <<hp, hpmu, hpc, hloc, hhist>>
regVars == <<groups, regmu, rpc, rloc, rhist, gstate>>
extVars == <<ringVars, poolVars, regVars>>
vars == <<lru, evicted, lastOp, clock, lastUse, tier, tierOp,
          cacheBytes, mainCache, hotCache, stats, gpeers, portPicker, pool,
          sfmu, sfm, calls, pc, loc, serial, hist,
          ring, ringOp, hp, hpmu, hpc, hloc, hhist, groups, regmu, rpc, rloc, rhist, gstate>>

(***************************************************************************)
(* lru/lru.go: the LRU engine.  ll is the list, front first; an element is *)
(* the entry {key, value} it carries.  cache is the key index: it maps a   *)
(* key to its list element, and an element is found by the key it carries  *)
(* (an entry's key never changes), so the index is kept as its key set.    *)
(* isnil says that ll and cache are nil (zero Cache, or after Clear).      *)
(* OnEvicted says whether a callback is installed.  Operations return the  *)
(* new Cache together with ev, the callback invocations they made.         *)
(***************************************************************************)
entry(key, value) == [key |-> key, value |-> value]

\* lru.New(maxEntries), with the OnEvicted field set by the caller
New(maxEntries, onEvicted) ==
    [MaxEntries |-> maxEntries, OnEvicted |-> onEvicted,
     isnil |-> FALSE, ll |-> <<>>, cache |-> {}]

\* the zero Cache literal &lru.Cache{MaxEntries: .., OnEvicted: ..}
ZeroCache(maxEntries, onEvicted) ==
    [MaxEntries |-> maxEntries, OnEvicted |-> onEvicted,
     isnil |-> TRUE, ll |-> <<>>, cache |-> {}]

\* positions of the list elements carrying key
ElemsOf(c, key) == {i \in 1..Len(c.ll) : c.ll[i].key = key}

\* list.MoveToFront(e) for the element at position i
MoveToFront(ll, i) ==
    <<ll[i]>> \o SubSeq(ll, 1, i - 1) \o SubSeq(ll, i + 1, Len(ll))

\* a list that keeps the element it is asked to remove
ListRemoveNothing(ll, i) == ll

\* list.Remove(e) for the element at position i
ListRemove(ll, i) == SubSeq(ll, 1, i - 1) \o SubSeq(ll, i + 1, Len(ll))

\* one OnEvicted(key, value) invocation; indexed: whether the key index still
\* holds the key while the callback runs
evcall(c, kv) == [key |-> kv.key, value |-> kv.value, indexed |-> kv.key \in c.cache]

removeElement(c, i) ==
    LET kv == c.ll[i]
        c1 == [c EXCEPT !.ll = ListRemove(c.ll, i), !.cache = c.cache \ {kv.key}]
    IN  [c |-> c1, ev |-> IF c.OnEvicted THEN <<evcall(c1, kv)>> ELSE <<>>]

RemoveOldest(c) ==
    IF c.isnil THEN [c |-> c, ev |-> <<>>]
    ELSE IF Len(c.ll) > 0 THEN removeElement(c, Len(c.ll))
    ELSE [c |-> c, ev |-> <<>>]

\* Add that moves a present key to the front and keeps its stored value
AddKeepsValue(c, key, value) ==
    LET c0 == IF c.isnil THEN [c EXCEPT !.isnil = FALSE, !.ll = <<>>, !.cache = {}] ELSE c
    IN  IF key \in c0.cache /\ ElemsOf(c0, key) # {}
        THEN [c |-> [c0 EXCEPT !.ll = MoveToFront(c0.ll, CHOOSE j \in ElemsOf(c0, key) : TRUE)],
              ev |-> <<>>]
        ELSE LET c1 == [c0 EXCEPT !.ll = <<entry(key, value)>> \o c0.ll,
                                  !.cache = c0.cache \cup {key}]
             IN  IF c1.MaxEntries # 0 /\ Len(c1.ll) > c1.MaxEntries
                 THEN RemoveOldest(c1)
                 ELSE [c |-> c1, ev |-> <<>>]

Add(c, key, value) ==
    LET c0 == IF c.isnil THEN [c EXCEPT !.isnil = FALSE, !.ll = <<>>, !.cache = {}] ELSE c
    IN  IF key \in c0.cache /\ ElemsOf(c0, key) # {}
        THEN LET i == CHOOSE j \in ElemsOf(c0, key) : TRUE
                 moved == MoveToFront(c0.ll, i)
             IN  [c |-> [c0 EXCEPT !.ll = [moved EXCEPT ![1].value = value]],
                  ev |-> <<>>]
        ELSE LET c1 == [c0 EXCEPT !.ll = <<entry(key, value)>> \o c0.ll,
                                  !.cache = c0.cache \cup {key}]
             IN  IF c1.MaxEntries # 0 /\ Len(c1.ll) > c1.MaxEntries
                 THEN RemoveOldest(c1)
                 ELSE [c |-> c1, ev |-> <<>>]

\* Get without the MoveToFront of lru.go:81
GetNoMove(c, key) ==
    IF c.isnil THEN [c |-> c, ok |-> FALSE, value |-> <<>>]
    ELSE IF key \in c.cache /\ ElemsOf(c, key) # {}
    THEN [c |-> c, ok |-> TRUE, value |-> c.ll[CHOOSE j \in ElemsOf(c, key) : TRUE].value]
    ELSE [c |-> c, ok |-> FALSE, value |-> <<>>]

Get(c, key) ==
    IF c.isnil THEN [c |-> c, ok |-> FALSE, value |-> <<>>]
    ELSE IF key \in c.cache /\ ElemsOf(c, key) # {}
    THEN LET i == CHOOSE j \in ElemsOf(c, key) : TRUE
         IN  [c |-> [c EXCEPT !.ll = MoveToFront(c.ll, i)],
              ok |-> TRUE, value |-> c.ll[i].value]
    ELSE [c |-> c, ok |-> FALSE, value |-> <<>>]

Remove(c, key) ==
    IF c.isnil THEN [c |-> c, ev |-> <<>>]
    ELSE IF key \in c.cache /\ ElemsOf(c, key) # {}
    THEN removeElement(c, CHOOSE j \in ElemsOf(c, key) : TRUE)
    ELSE [c |-> c, ev |-> <<>>]

LruLen(c) == IF c.isnil THEN 0 ELSE Len(c.ll)

\* Clear without the OnEvicted loop of lru.go:127-132
ClearNoCallback(c, order) ==
    [c |-> [c EXCEPT !.isnil = TRUE, !.ll = <<>>, !.cache = {}], ev |-> <<>>]

\* Clear ranges over the key index (a Go map: any order); order is the order
\* taken, a sequence of the indexed keys
Clear(c, order) ==
    [c |-> [c EXCEPT !.isnil = TRUE, !.ll = <<>>, !.cache = {}],
     ev |-> IF c.OnEvicted
            THEN [n \in 1..Len(order) |->
                    evcall(c, c.ll[CHOOSE j \in ElemsOf(c, order[n]) : TRUE])]
            ELSE <<>>]

\* the orders in which a Go range can visit the key set S
RangeOrders(S) ==
    {o \in [1..Cardinality(S) -> S] : \A i, j \in DOMAIN o : i # j => o[i] # o[j]}

(***************************************************************************)
(* The stand-alone LRU engine under a client that calls its operations.    *)
(***************************************************************************)
KeysOf(c) == {c.ll[i].key : i \in 1..Len(c.ll)}

InitLru ==
    /\ \E me \in 0..MaxMaxEntries, cb \in BOOLEAN :
          lru \in {New(me, cb), ZeroCache(me, cb)}
    /\ evicted = <<>>
    /\ lastOp = [op |-> "none", key |-> "", hit |-> FALSE, before |-> <<>>]
    /\ clock = 0
    /\ lastUse = [k \in Keys |-> 0]

LruAdd(key, value) ==
    /\ clock < MaxOps
    /\ LET r == Add(lru, key, value)
       IN  /\ lru' = r.c
           /\ evicted' = r.ev
    /\ lastOp' = [op |-> "Add", key |-> key, hit |-> key \in KeysOf(lru), before |-> lru.ll]
    /\ clock' = clock + 1
    /\ lastUse' = [lastUse EXCEPT ![key] = clock + 1]
    /\ UNCHANGED <<tierVars, groupVars, extVars>>

LruGet(key) ==
    /\ clock < MaxOps
    /\ LET r == Get(lru, key)
       IN  /\ lru' = r.c
           /\ lastOp' = [op |-> "Get", key |-> key, hit |-> r.ok, before |-> lru.ll]
           /\ lastUse' = IF r.ok THEN [lastUse EXCEPT ![key] = clock + 1] ELSE lastUse
    /\ evicted' = <<>>
    /\ clock' = clock + 1
    /\ UNCHANGED <<tierVars, groupVars, extVars>>

LruRemove(key) ==
    /\ clock < MaxOps
    /\ LET r == Remove(lru, key)
       IN  /\ lru' = r.c
           /\ evicted' = r.ev
    /\ lastOp' = [op |-> "Remove", key |-> key, hit |-> key \in KeysOf(lru), before |-> lru.ll]
    /\ clock' = clock + 1
    /\ UNCHANGED <<lastUse, tierVars, groupVars, extVars>>

LruRemoveOldest ==
    /\ clock < MaxOps
    /\ LET r == RemoveOldest(lru)
       IN  /\ lru' = r.c
           /\ evicted' = r.ev
    /\ lastOp' = [op |-> "RemoveOldest", key |-> "", hit |-> LruLen(lru) > 0, before |-> lru.ll]
    /\ clock' = clock + 1
    /\ UNCHANGED <<lastUse, tierVars, groupVars, extVars>>

LruClear ==
    /\ clock < MaxOps
    /\ \E order \in RangeOrders(lru.cache) :
          LET r == Clear(lru, order)
          IN  /\ lru' = r.c
              /\ evicted' = r.ev
    /\ lastOp' = [op |-> "Clear", key |-> "", hit |-> LruLen(lru) > 0, before |-> lru.ll]
    /\ clock' = clock + 1
    /\ UNCHANGED <<lastUse, tierVars, groupVars, extVars>>

(***************************************************************************)
(* groupcache.go: the cache tier, a mutex-guarded wrapper of an lru.Cache  *)
(* that keeps the byte total and the counters.  Every method holds c.mu    *)
(* from entry to return (defer Unlock), so each is one atomic step.  The   *)
(* pointer c.lru is a sequence: <<>> is nil, <<x>> points to the Cache x.  *)
(***************************************************************************)
\* ByteView.Len
ByteViewLen(v) == Len(v)

\* the zero cache struct
ZeroTier == [nbytes |-> 0, lru |-> <<>>, nhit |-> 0, nget |-> 0, nevict |-> 0]

\* an OnEvicted closure that forgets the key's length
tierOnEvictedValueOnly(c, call) ==
    [c EXCEPT !.nbytes = c.nbytes - ByteViewLen(call.value), !.nevict = c.nevict + 1]

\* the OnEvicted closure installed by cache.add
tierOnEvicted(c, call) ==
    [c EXCEPT !.nbytes = c.nbytes - (Len(call.key) + ByteViewLen(call.value)),
              !.nevict = c.nevict + 1]

RECURSIVE tierRunCallbacks(_, _)
tierRunCallbacks(c, ev) ==
    IF ev = <<>> THEN c ELSE tierRunCallbacks(tierOnEvicted(c, Head(ev)), Tail(ev))

\* an add that stores nothing
cacheAddNothing(c, key, value) == c

\* cache.add: lazily builds the LRU with its OnEvicted closure, adds the
\* entry and bills len(key)+value.Len()
cacheAdd(c, key, value) ==
    LET l0 == IF c.lru = <<>> THEN ZeroCache(0, TRUE) ELSE c.lru[1]
        r  == Add(l0, key, value)
        c1 == tierRunCallbacks([c EXCEPT !.lru = <<r.c>>], r.ev)
    IN  [c1 EXCEPT !.nbytes = c1.nbytes + Len(key) + ByteViewLen(value)]

\* a tier that counts the get and finds nothing
cacheGetMisses(c, key) == [c |-> [c EXCEPT !.nget = c.nget + 1], ok |-> FALSE, value |-> <<>>]

\* cache.get: returns the tier, the value and ok
cacheGet(c, key) ==
    LET c1 == [c EXCEPT !.nget = c.nget + 1]
    IN  IF c1.lru = <<>> THEN [c |-> c1, ok |-> FALSE, value |-> <<>>]
        ELSE LET r == Get(c1.lru[1], key)
             IN  IF ~r.ok
                 THEN [c |-> [c1 EXCEPT !.lru = <<r.c>>], ok |-> FALSE, value |-> <<>>]
                 ELSE [c |-> [c1 EXCEPT !.lru = <<r.c>>, !.nhit = c1.nhit + 1],
                       ok |-> TRUE, value |-> r.value]

\* a removeOldest that leaves the tier as it is
cacheRemoveOldestNothing(c) == c

cacheRemoveOldest(c) ==
    IF c.lru # <<>>
    THEN LET r == RemoveOldest(c.lru[1])
         IN  tierRunCallbacks([c EXCEPT !.lru = <<r.c>>], r.ev)
    ELSE c

cacheBytesOf(c) == c.nbytes

itemsLocked(c) == IF c.lru = <<>> THEN 0 ELSE LruLen(c.lru[1])

\* the entries a tier's LRU holds, front first
TierEntries(c) == IF c.lru = <<>> THEN <<>> ELSE c.lru[1].ll

RECURSIVE SumCost(_)
SumCost(ll) ==
    IF ll = <<>> THEN 0
    ELSE Len(Head(ll).key) + ByteViewLen(Head(ll).value) + SumCost(Tail(ll))

(***************************************************************************)
(* The stand-alone cache tier under a client that calls add, get and       *)
(* removeOldest.  tierOp remembers the last call, the tier before it, the  *)
(* number of calls, and whether add was ever given a key the tier held.    *)
(***************************************************************************)
InitTier ==
    /\ tier = ZeroTier
    /\ tierOp = [op |-> "none", key |-> "", before |-> ZeroTier, n |-> 0, dup |-> FALSE]

TierAdd(key, value) ==
    /\ tierOp.n < MaxOps
    /\ tier' = cacheAdd(tier, key, value)
    /\ tierOp' = [op |-> "add", key |-> key, before |-> tier, n |-> tierOp.n + 1,
                  dup |-> tierOp.dup \/ key \in KeysOf([ll |-> TierEntries(tier)])]
    /\ UNCHANGED <<lruVars, groupVars, extVars>>

TierGet(key) ==
    /\ tierOp.n < MaxOps
    /\ tier' = cacheGet(tier, key).c
    /\ tierOp' = [tierOp EXCEPT !.op = "get", !.key = key, !.before = tier, !.n = tierOp.n + 1]
    /\ UNCHANGED <<lruVars, groupVars, extVars>>

TierRemoveOldest ==
    /\ tierOp.n < MaxOps
    /\ tier' = cacheRemoveOldest(tier)
    /\ tierOp' = [tierOp EXCEPT !.op = "removeOldest", !.key = "", !.before = tier,
                                !.n = tierOp.n + 1]
    /\ UNCHANGED <<lruVars, groupVars, extVars>>

(***************************************************************************)
(* consistenthash.go: the ring.  A Map holds the replica factor, the hash  *)
(* function, the sorted virtual-node hashes (keys) and hashMap, from a     *)
(* virtual-node hash to the peer it stands for.                            *)
(***************************************************************************)
\* strconv.Itoa for the replica indices the model uses
Itoa(i) == <<"0", "1", "2", "3", "4", "5", "6", "7", "8", "9">>[i + 1]

\* consistenthash.New(replicas, fn)
MapNew(replicas, fn) ==
    [replicas |-> replicas, hash |-> fn, keys |-> <<>>, hashMap |-> <<>>]

MapIsEmpty(m) == Len(m.keys) = 0

\* the inner loop of Add: the replicas i, i+1, .. of one peer
RECURSIVE MapAddReplicas(_, _, _)
MapAddReplicas(m, key, i) ==
    IF i < m.replicas
    THEN LET hash == m.hash[Itoa(i) \o key]
         IN  MapAddReplicas([m EXCEPT !.keys = Append(m.keys, hash),
                                      !.hashMap = (hash :> key) @@ m.hashMap],
                            key, i + 1)
    ELSE m

\* the outer loop of Add
RECURSIVE MapAddKeys(_, _)
MapAddKeys(m, keys) ==
    IF keys = <<>> THEN m
    ELSE MapAddKeys(MapAddReplicas(m, Head(keys), 0), Tail(keys))

\* an Add without the sort
MapAddUnsorted(m, keys) == MapAddKeys(m, keys)

\* Map.Add(keys...): the loops, then sort.Ints(m.keys)
MapAdd(m, keys) ==
    LET m1 == MapAddKeys(m, keys)
    IN  [m1 EXCEPT !.keys = SortSeq(m1.keys, LAMBDA x, y : x < y)]

\* a search that stops at the first index
SearchFirst(keys, hash, i, j) == i

\* sort.Search(n, f) with f(i) = keys[i] >= hash: the binary search of the
\* Go library over the 0-based indices [i, j)
RECURSIVE SearchFrom(_, _, _, _)
SearchFrom(keys, hash, i, j) ==
    IF i < j
    THEN LET h == (i + j) \div 2
         IN  IF ~(keys[h + 1] >= hash)
             THEN SearchFrom(keys, hash, h + 1, j)
             ELSE SearchFrom(keys, hash, i, h)
    ELSE i

\* Map.Get(key); "" is the empty string returned for an empty ring
MapGet(m, key) ==
    IF MapIsEmpty(m) THEN ""
    ELSE LET hash == m.hash[key]
             idx  == SearchFrom(m.keys, hash, 0, Len(m.keys))
             idx1 == IF idx = Len(m.keys) THEN 0 ELSE idx
         IN  m.hashMap[m.keys[idx1 + 1]]

(***************************************************************************)
(* http.go: the pool of peers.  Set and PickPeer hold p.mu from entry to   *)
(* return, so each is atomic.  A getter is named by its base URL.          *)
(***************************************************************************)
\* this process and the other peer
Self == "S"
Other == "P"
\* HTTPPoolOptions.BasePath after defaulting
BasePath == "/_groupcache/"
\* HTTPPoolOptions.Replicas of the modelled pool
PoolReplicas == 2
\* HTTPPoolOptions.HashFn of the modelled pool: "a" hashes onto Self's
\* virtual nodes, "bb" onto Other's
PoolHash ==
    [s \in {"a", "bb", "ccc", "0S", "1S", "0P", "1P", "0Q", "1Q"} |->
        CASE s = "a" -> 1 [] s = "0S" -> 2 [] s = "bb" -> 3 [] s = "0P" -> 4
          [] s = "0Q" -> 5 [] s = "1S" -> 6 [] s = "ccc" -> 7 [] s = "1P" -> 8
          [] s = "1Q" -> 9]

\* NewHTTPPoolOpts(self, o)
NewHTTPPoolOpts(self, replicas, fn) ==
    [self |-> self, replicas |-> replicas, hashFn |-> fn,
     peers |-> MapNew(replicas, fn), httpGetters |-> <<>>]

\* HTTPPool.Set(peers...)
PoolSet(p, peers) ==
    [p EXCEPT !.peers = MapAdd(MapNew(p.replicas, p.hashFn), peers),
              !.httpGetters = [x \in {peers[i] : i \in 1..Len(peers)} |-> x \o BasePath]]

\* a PickPeer that takes every owner for remote
IsRemoteAlways(p, peer) == TRUE

\* PickPeer's test `peer != p.self`
IsRemote(p, peer) == peer # p.self

\* HTTPPool.PickPeer(key): the getter (<<>> for nil) and ok
PoolPickPeer(p, key) ==
    IF MapIsEmpty(p.peers) THEN [peer |-> <<>>, ok |-> FALSE]
    ELSE LET peer == MapGet(p.peers, key)
         IN  IF IsRemote(p, peer)
             THEN [peer |-> IF peer \in DOMAIN p.httpGetters
                            THEN <<p.httpGetters[peer]>> ELSE <<>>,
                   ok |-> TRUE]
             ELSE [peer |-> <<>>, ok |-> FALSE]

\* peers.go getPeers: the registered picker, or NoPeers
getPeers(registered) == IF registered THEN "pool" ELSE "NoPeers"

\* PeerPicker.PickPeer of the Group's picker (NoPeers never finds a peer)
PickPeer(picker, p, key) ==
    IF picker = "pool" THEN PoolPickPeer(p, key) ELSE [peer |-> <<>>, ok |-> FALSE]

(***************************************************************************)
(* groupcache.go and singleflight.go: a Group, and goroutines that call    *)
(* Group.Get.  A step is one critical section (a tier method, PickPeer),   *)
(* one acquisition of the single-flight mutex, or one return of an         *)
(* external call (the user loader, the remote peer); the goroutine's own   *)
(* statements that follow it up to the next such point belong to the step. *)
(***************************************************************************)
Threads == 1..NumThreads
\* the keys asked of the Group
GroupKeys == {"a", "bb"}
\* the budgets a Group is built with
Budgets == {-1, 0, 4, 8}

\* error values; NilErr is Go's nil error
NilErr == ""
NilSinkErr == "groupcache: nil dest Sink"
LoaderErr == "loader error"
\* Get has not returned / has returned nil
RetPending == "pending"
RetNil == "nil"

\* the bytes the user loader produces for key on its n-th success (a loader
\* that serves a serial number, so that two loads are told apart)
LoaderValue(key, n) == <<key, n>>
\* the bytes the owning peer answers for key
PeerValue(key) == <<key, 0, 0>>

ZeroStats ==
    [Gets |-> 0, CacheHits |-> 0, PeerLoads |-> 0, PeerErrors |-> 0, Loads |-> 0,
     LoadsDeduped |-> 0, LocalLoads |-> 0, LocalLoadErrs |-> 0, ServerRequests |-> 0]

\* a goroutine's locals in Get, load, the producer closure and populateCache;
\* sink is the caller's destination: <<>> unset, <<v>> holding the view v
ZeroLocals ==
    [key |-> "", value |-> <<>>, err |-> NilErr, destPopulated |-> FALSE, c |-> 0,
     waited |-> FALSE, peer |-> <<>>, mainBytes |-> 0, victim |-> "", target |-> "",
     sink |-> <<>>, copied |-> FALSE, filled |-> FALSE, reprobed |-> FALSE,
     peerFailed |-> FALSE, overlapped |-> FALSE, ret |-> RetPending]

ZeroHist ==
    [asked |-> [k \in GroupKeys |-> 0],      \* Get(k, sink) calls made
     loader |-> [k \in GroupKeys |-> 0],     \* user-loader invocations for k
     loaderFailed |-> FALSE,                 \* the loader has returned an error
     sequential |-> FALSE,                   \* a Get was called after another had returned
     dupAdd |-> FALSE,                       \* a tier was given a key it held
     produced |-> <<>>,                      \* call -> what its producer returned
     got |-> [k \in GroupKeys |-> {}]]       \* the views successful Get(k) left in sinks

\* sinks.go setSinkView(dst, v): the sink receives the view
setSinkView(sink, v) == <<v>>

\* a tail of Get that takes every sink for populated
getReturnNoCopy(l, value, err) ==
    IF err # NilErr THEN [l EXCEPT !.value = <<>>, !.err = err, !.ret = err]
    ELSE [l EXCEPT !.value = value, !.err = err, !.ret = RetNil]

\* the tail of load and of Get once Do has returned (value, err):
\* load keeps the value only without error; Get returns the error, or nil
\* at once when destPopulated, or copies the view into the sink
getReturn(l, value, err) ==
    IF err # NilErr THEN [l EXCEPT !.value = <<>>, !.err = err, !.ret = err]
    ELSE IF l.destPopulated THEN [l EXCEPT !.value = value, !.err = err, !.ret = RetNil]
    ELSE [l EXCEPT !.value = value, !.err = err,
                   !.sink = setSinkView(l.sink, value), !.copied = TRUE, !.ret = RetNil]

\* the locals that matter once Get has returned
AtReturn(l) ==
    [l EXCEPT !.peer = <<>>, !.mainBytes = 0, !.victim = "", !.target = "",
              !.overlapped = FALSE]

\* hist after a Get of key has returned with locals l
Returned(h, l) ==
    IF l.ret = RetNil /\ l.sink # <<>>
    THEN [h EXCEPT !.got[l.key] = @ \cup {l.sink[1]}]
    ELSE h

InitGroup ==
    /\ cacheBytes \in Budgets
    /\ mainCache = ZeroTier
    /\ hotCache = ZeroTier
    /\ stats = ZeroStats
    /\ gpeers = "nil"
    /\ \E cfg \in {"none", "unset", "set"} :
          /\ portPicker = (cfg # "none")
          /\ pool = IF cfg = "set"
                    THEN PoolSet(NewHTTPPoolOpts(Self, PoolReplicas, PoolHash), <<Self, Other>>)
                    ELSE NewHTTPPoolOpts(Self, PoolReplicas, PoolHash)
    /\ sfmu = 0
    /\ sfm = <<>>
    /\ calls = <<>>
    /\ pc = [t \in Threads |-> "idle"]
    /\ loc = [t \in Threads |-> ZeroLocals]
    /\ serial = 0
    /\ hist = ZeroHist

InitGroupIdle ==
    /\ cacheBytes = 0
    /\ mainCache = ZeroTier
    /\ hotCache = ZeroTier
    /\ stats = ZeroStats
    /\ gpeers = "nil"
    /\ portPicker = FALSE
    /\ pool = NewHTTPPoolOpts(Self, PoolReplicas, PoolHash)
    /\ sfmu = 0
    /\ sfm = <<>>
    /\ calls = <<>>
    /\ pc = [t \in Threads |-> "idle"]
    /\ loc = [t \in Threads |-> ZeroLocals]
    /\ serial = 0
    /\ hist = ZeroHist

\* the mutexes a goroutine takes, and releases on return (`defer
\* c.mu.Unlock()`, `defer p.mu.Unlock()`), inside the method that the step
\* from position p calls: cache.get / add / bytes / removeOldest on a tier,
\* HTTPPool.PickPeer on the picker
StepMutexes(p) ==
    CASE p \in {"lookupMain", "fnLookupMain", "popMain"} -> {"mainCache.mu"}
      [] p \in {"lookupHot", "fnLookupHot", "popHot"} -> {"hotCache.mu"}
      [] p \in {"popAdd", "popEvict"} -> {"mainCache.mu", "hotCache.mu"}
      [] p = "pick" -> {"HTTPPool.mu"}
      [] OTHER -> {}

\* a group that takes every budget for a budget to cache in
NoBudgetNever(budget) == FALSE

\* the test `g.cacheBytes <= 0` of lookupCache and populateCache
NoBudget(budget) == budget <= 0

\* Group.lookupCache, one tier at a time, in Get (inFn = FALSE) or in the
\* producer closure (inFn = TRUE).  With a budget <= 0 it reports a miss
\* without touching a tier.  A hit counts CacheHits and returns the view
\* (from Get, into the sink); a miss of the main tier leads to the hot
\* tier; a final miss enters load (Loads++) from Get, and goes on to
\* LoadsDeduped++ and PickPeer in the closure.
Probe(t, which, inFn) ==
    LET r == IF NoBudget(cacheBytes)
             THEN [c |-> IF which = "main" THEN mainCache ELSE hotCache,
                   ok |-> FALSE, value |-> <<>>]
             ELSE cacheGet(IF which = "main" THEN mainCache ELSE hotCache, loc[t].key)
        last == which = "hot" \/ NoBudget(cacheBytes)
    IN  /\ IF which = "main"
           THEN mainCache' = r.c /\ UNCHANGED hotCache
           ELSE hotCache' = r.c /\ UNCHANGED mainCache
        /\ IF r.ok
           THEN /\ stats' = [stats EXCEPT !.CacheHits = @ + 1]
                /\ IF inFn
                   THEN /\ pc' = [pc EXCEPT ![t] = "doDone"]
                        /\ loc' = [loc EXCEPT ![t].value = r.value, ![t].err = NilErr,
                                              ![t].reprobed = TRUE]
                        /\ UNCHANGED hist
                   ELSE LET l == AtReturn([loc[t] EXCEPT
                                              !.sink = setSinkView(loc[t].sink, r.value),
                                              !.value = r.value,
                                              !.copied = TRUE, !.ret = RetNil])
                        IN  /\ pc' = [pc EXCEPT ![t] = "done"]
                            /\ loc' = [loc EXCEPT ![t] = l]
                            /\ hist' = Returned(hist, l)
           ELSE /\ pc' = [pc EXCEPT ![t] =
                            IF ~last THEN (IF inFn THEN "fnLookupHot" ELSE "lookupHot")
                            ELSE (IF inFn THEN "pick" ELSE "doLock")]
                /\ stats' = IF ~last THEN stats
                            ELSE IF inFn THEN [stats EXCEPT !.LoadsDeduped = @ + 1]
                            ELSE [stats EXCEPT !.Loads = @ + 1]
                /\ UNCHANGED <<loc, hist>>

\* Group.Get is called: peersOnce.Do(initPeers), Gets++ and the nil-sink check
GetCall(t, key, hasDest) ==
    /\ pc[t] \in {"idle", "done"}
    /\ stats.Gets < MaxGets
    /\ gpeers' = IF gpeers = "nil" THEN getPeers(portPicker) ELSE gpeers
    /\ LET l == [ZeroLocals EXCEPT !.key = key]
       IN  IF ~hasDest
           THEN /\ stats' = [stats EXCEPT !.Gets = @ + 1]
                /\ loc' = [loc EXCEPT ![t] = [l EXCEPT !.ret = NilSinkErr]]
                /\ pc' = [pc EXCEPT ![t] = "done"]
                /\ UNCHANGED hist
           ELSE /\ loc' = [loc EXCEPT ![t] = l]
                /\ hist' = [hist EXCEPT !.asked[key] = @ + 1,
                                        !.sequential = @ \/ (\E t2 \in Threads : pc[t2] = "done")]
                /\ stats' = [stats EXCEPT !.Gets = @ + 1]
                /\ pc' = [pc EXCEPT ![t] = "lookupMain"]
    /\ UNCHANGED <<cacheBytes, mainCache, hotCache, portPicker, pool, sfmu, sfm, calls, serial>>
    /\ UNCHANGED <<lruVars, tierVars, extVars>>

\* lookupCache in Get: g.mainCache.get(key)
LookupMain(t) ==
    /\ pc[t] = "lookupMain"
    /\ Probe(t, "main", FALSE)
    /\ UNCHANGED <<cacheBytes, gpeers, portPicker, pool, sfmu, sfm, calls, serial>>
    /\ UNCHANGED <<lruVars, tierVars, extVars>>

\* lookupCache in Get: g.hotCache.get(key); a miss enters load (Loads++)
LookupHot(t) ==
    /\ pc[t] = "lookupHot"
    /\ Probe(t, "hot", FALSE)
    /\ UNCHANGED <<cacheBytes, gpeers, portPicker, pool, sfmu, sfm, calls, serial>>
    /\ UNCHANGED <<lruVars, tierVars, extVars>>

\* singleflight Do: g.mu.Lock()
DoLock(t) ==
    /\ pc[t] = "doLock"
    /\ sfmu = 0
    /\ sfmu' = t
    /\ pc' = [pc EXCEPT ![t] = "doCheck"]
    /\ UNCHANGED <<cacheBytes, mainCache, hotCache, stats, gpeers, portPicker, pool,
                   sfm, calls, loc, serial, hist>>
    /\ UNCHANGED <<lruVars, tierVars, extVars>>

\* the call struct a fresh `new(call)` yields, after c.wg.Add(1)
NewCall == [val |-> <<>>, err |-> NilErr, done |-> FALSE]

\* a Do that never finds a call in flight
NeverInFlight(m, key) == FALSE

\* singleflight Do: `c, ok := g.m[key]`, whether a call for key is in flight
InFlight(m, key) == key \in DOMAIN m

\* a Do that goes on to wait, or to run fn, without g.mu.Unlock()
DoCheckKeepsLock(t) ==
    /\ pc[t] = "doCheck"
    /\ sfmu = t
    /\ IF InFlight(sfm, loc[t].key)
       THEN /\ loc' = [loc EXCEPT ![t].c = sfm[loc[t].key], ![t].waited = TRUE]
            /\ pc' = [pc EXCEPT ![t] = "doWait"]
            /\ UNCHANGED <<sfm, calls>>
       ELSE /\ calls' = Append(calls, NewCall)
            /\ sfm' = (loc[t].key :> (Len(calls) + 1)) @@ sfm
            /\ loc' = [loc EXCEPT ![t].c = Len(calls) + 1]
            /\ pc' = [pc EXCEPT ![t] = "fnLookupMain"]
    /\ UNCHANGED <<cacheBytes, mainCache, hotCache, stats, gpeers, portPicker, pool, serial,
                   hist, sfmu>>
    /\ UNCHANGED <<lruVars, tierVars, extVars>>

\* singleflight Do, holding g.mu: an in-flight call is found (Unlock, then
\* wait on it), or a new call is registered (Unlock, then run fn)
DoCheck(t) ==
    /\ pc[t] = "doCheck"
    /\ sfmu = t
    /\ sfmu' = 0
    /\ IF InFlight(sfm, loc[t].key)
       THEN /\ loc' = [loc EXCEPT ![t].c = sfm[loc[t].key], ![t].waited = TRUE]
            /\ pc' = [pc EXCEPT ![t] = "doWait"]
            /\ UNCHANGED <<sfm, calls>>
       ELSE /\ calls' = Append(calls, NewCall)
            /\ sfm' = (loc[t].key :> (Len(calls) + 1)) @@ sfm
            /\ loc' = [loc EXCEPT ![t].c = Len(calls) + 1]
            /\ pc' = [pc EXCEPT ![t] = "fnLookupMain"]
    /\ UNCHANGED <<cacheBytes, mainCache, hotCache, stats, gpeers, portPicker, pool, serial, hist>>
    /\ UNCHANGED <<lruVars, tierVars, extVars>>

\* a Wait that returns at once
WaitReturnsAtOnce(c) == TRUE

\* c.wg.Wait() returns once the owner has called c.wg.Done()
WaitReturns(c) == c.done

\* singleflight Do: c.wg.Wait() returns once the call is done; Do returns
\* c.val, c.err, and load and Get finish
DoWait(t) ==
    /\ pc[t] = "doWait"
    /\ WaitReturns(calls[loc[t].c])
    /\ LET c == calls[loc[t].c]
           l == AtReturn(getReturn(loc[t], c.val, c.err))
       IN  /\ loc' = [loc EXCEPT ![t] = l]
           /\ hist' = Returned(hist, l)
    /\ pc' = [pc EXCEPT ![t] = "done"]
    /\ UNCHANGED <<cacheBytes, mainCache, hotCache, stats, gpeers, portPicker, pool,
                   sfmu, sfm, calls, serial>>
    /\ UNCHANGED <<lruVars, tierVars, extVars>>

\* a producer closure without the re-probe of the tiers
FnLookupMainSkipped(t) ==
    /\ pc[t] = "fnLookupMain"
    /\ pc' = [pc EXCEPT ![t] = "pick"]
    /\ stats' = [stats EXCEPT !.LoadsDeduped = @ + 1]
    /\ UNCHANGED <<cacheBytes, mainCache, hotCache, gpeers, portPicker, pool,
                   sfmu, sfm, calls, loc, serial, hist>>
    /\ UNCHANGED <<lruVars, tierVars, extVars>>

\* the producer closure re-probes the main tier
FnLookupMain(t) ==
    /\ pc[t] = "fnLookupMain"
    /\ Probe(t, "main", TRUE)
    /\ UNCHANGED <<cacheBytes, gpeers, portPicker, pool, sfmu, sfm, calls, serial>>
    /\ UNCHANGED <<lruVars, tierVars, extVars>>

\* the producer closure re-probes the hot tier; a miss counts LoadsDeduped
FnLookupHot(t) ==
    /\ pc[t] = "fnLookupHot"
    /\ Probe(t, "hot", TRUE)
    /\ UNCHANGED <<cacheBytes, gpeers, portPicker, pool, sfmu, sfm, calls, serial>>
    /\ UNCHANGED <<lruVars, tierVars, extVars>>

\* g.peers.PickPeer(key): a remote owner leads to getFromPeer, else the
\* user loader is invoked (getLocally)
FnPickPeer(t) ==
    /\ pc[t] = "pick"
    /\ LET r == PickPeer(gpeers, pool, loc[t].key)
       IN  IF r.ok
           THEN /\ loc' = [loc EXCEPT ![t].peer = r.peer]
                /\ pc' = [pc EXCEPT ![t] = "peerGet"]
                /\ UNCHANGED hist
           ELSE /\ pc' = [pc EXCEPT ![t] = "getLocally"]
                /\ hist' = [hist EXCEPT !.loader[loc[t].key] = @ + 1]
                /\ UNCHANGED loc
    /\ UNCHANGED <<cacheBytes, mainCache, hotCache, stats, gpeers, portPicker, pool,
                   sfmu, sfm, calls, serial>>
    /\ UNCHANGED <<lruVars, tierVars, extVars>>

\* a closure that leaves PeerLoads alone
PeerLoadUncounted(st) == st

\* the closure after a getFromPeer without error: g.Stats.PeerLoads.Add(1)
PeerLoadCounted(st) == [st EXCEPT !.PeerLoads = @ + 1]

\* a populateCache that is always given the hot tier
PopulateTargetHot(fromPeer) == "hot"

\* the tier populateCache is given: &g.hotCache by getFromPeer, &g.mainCache
\* by the closure after the user loader
PopulateTarget(fromPeer) == IF fromPeer THEN "hot" ELSE "main"

\* getFromPeer: peer.Get returns.  An error counts PeerErrors and falls
\* through to getLocally; a value is, when rand.Intn(10) = 0 (toHot), put
\* into the hot tier, and else returned at once (PeerLoads++)
PeerReply(t, failed, toHot) ==
    /\ pc[t] = "peerGet"
    /\ IF failed
       THEN /\ stats' = [stats EXCEPT !.PeerErrors = @ + 1]
            /\ pc' = [pc EXCEPT ![t] = "getLocally"]
            /\ hist' = [hist EXCEPT !.loader[loc[t].key] = @ + 1]
            /\ loc' = [loc EXCEPT ![t].peerFailed = TRUE]
       ELSE IF toHot
       THEN /\ loc' = [loc EXCEPT ![t].value = PeerValue(loc[t].key),
                                  ![t].target = PopulateTarget(TRUE)]
            /\ pc' = [pc EXCEPT ![t] = "popAdd"]
            /\ UNCHANGED <<stats, hist>>
       ELSE /\ loc' = [loc EXCEPT ![t].value = PeerValue(loc[t].key), ![t].err = NilErr]
            /\ stats' = PeerLoadCounted(stats)
            /\ pc' = [pc EXCEPT ![t] = "doDone"]
            /\ UNCHANGED hist
    /\ UNCHANGED <<cacheBytes, mainCache, hotCache, gpeers, portPicker, pool,
                   sfmu, sfm, calls, serial>>
    /\ UNCHANGED <<lruVars, tierVars, extVars>>

\* getLocally: the user loader returns.  An error counts LocalLoadErrs and
\* is the producer's result; on success the loader has set the sink, the
\* closure takes dest.view(), counts LocalLoads, sets destPopulated and
\* calls populateCache for the main tier
LoaderReturn(t, failed) ==
    /\ pc[t] = "getLocally"
    /\ IF failed
       THEN /\ stats' = [stats EXCEPT !.LocalLoadErrs = @ + 1]
            /\ loc' = [loc EXCEPT ![t].value = <<>>, ![t].err = LoaderErr]
            /\ pc' = [pc EXCEPT ![t] = "doDone"]
            /\ hist' = [hist EXCEPT !.loaderFailed = TRUE]
            /\ UNCHANGED serial
       ELSE /\ serial' = serial + 1
            /\ stats' = [stats EXCEPT !.LocalLoads = @ + 1]
            /\ loc' = [loc EXCEPT ![t].sink = <<LoaderValue(loc[t].key, serial + 1)>>,
                                  ![t].value = LoaderValue(loc[t].key, serial + 1),
                                  ![t].err = NilErr,
                                  ![t].destPopulated = TRUE,
                                  ![t].filled = TRUE,
                                  ![t].target = PopulateTarget(FALSE)]
            /\ pc' = [pc EXCEPT ![t] = "popAdd"]
            /\ UNCHANGED hist
    /\ UNCHANGED <<cacheBytes, mainCache, hotCache, gpeers, portPicker, pool,
                   sfmu, sfm, calls>>
    /\ UNCHANGED <<lruVars, tierVars, extVars>>

\* populateCache returns to its caller: the closure (main tier), or
\* getFromPeer, which returns to the closure (PeerLoads++)
PopReturn(t) ==
    /\ pc' = [pc EXCEPT ![t] = "doDone"]
    /\ stats' = IF loc[t].target = "hot"
                THEN PeerLoadCounted(stats)
                ELSE stats

\* the goroutines inside populateCache after their cache.add
InSweep == {t \in Threads : pc[t] \in {"popMain", "popHot", "popEvict"}}

\* the locals once t's cache.add is made: a populateCache call that another
\* one's cache.add or sweep overlaps is marked (for the properties)
OverlapMarked(t) ==
    [t2 \in Threads |->
        IF InSweep \ {t} # {} /\ t2 \in InSweep \cup {t}
        THEN [loc[t2] EXCEPT !.overlapped = TRUE]
        ELSE loc[t2]]

\* populateCache: the budget check and cache.add(key, value)
PopAdd(t) ==
    /\ pc[t] = "popAdd"
    /\ IF NoBudget(cacheBytes)
       THEN /\ PopReturn(t)
            /\ UNCHANGED <<mainCache, hotCache>>
       ELSE /\ IF loc[t].target = "main"
               THEN /\ mainCache' = cacheAdd(mainCache, loc[t].key, loc[t].value)
                    /\ UNCHANGED hotCache
               ELSE /\ hotCache' = cacheAdd(hotCache, loc[t].key, loc[t].value)
                    /\ UNCHANGED mainCache
            /\ pc' = [pc EXCEPT ![t] = "popMain"]
            /\ UNCHANGED stats
    /\ hist' = IF /\ ~NoBudget(cacheBytes)
                  /\ loc[t].key \in KeysOf([ll |-> TierEntries(IF loc[t].target = "main"
                                                                THEN mainCache ELSE hotCache)])
               THEN [hist EXCEPT !.dupAdd = TRUE]
               ELSE hist
    /\ loc' = IF ~NoBudget(cacheBytes) THEN OverlapMarked(t) ELSE loc
    /\ UNCHANGED <<cacheBytes, gpeers, portPicker, pool, sfmu, sfm, calls, serial>>
    /\ UNCHANGED <<lruVars, tierVars, extVars>>

\* populateCache's loop: mainBytes := g.mainCache.bytes()
PopReadMain(t) ==
    /\ pc[t] = "popMain"
    /\ loc' = [loc EXCEPT ![t].mainBytes = cacheBytesOf(mainCache)]
    /\ pc' = [pc EXCEPT ![t] = "popHot"]
    /\ UNCHANGED <<cacheBytes, mainCache, hotCache, stats, gpeers, portPicker, pool,
                   sfmu, sfm, calls, serial, hist>>
    /\ UNCHANGED <<lruVars, tierVars, extVars>>

\* a budget test that forgets the hot tier
WithinBudgetMainOnly(mainBytes, hotBytes, budget) == mainBytes <= budget

\* populateCache's test `mainBytes+hotBytes <= g.cacheBytes`
WithinBudget(mainBytes, hotBytes, budget) == mainBytes + hotBytes <= budget

\* a choice of victim that takes the hot tier already at an eighth
VictimAtEighth(mainBytes, hotBytes) == IF hotBytes >= mainBytes \div 8 THEN "hot" ELSE "main"

\* the victim populateCache picks from the byte totals it has read
Victim(mainBytes, hotBytes) == IF hotBytes > mainBytes \div 8 THEN "hot" ELSE "main"

\* populateCache's loop: hotBytes := g.hotCache.bytes(), the budget test
\* and the choice of the victim
PopReadHot(t) ==
    /\ pc[t] = "popHot"
    /\ LET hotBytes == cacheBytesOf(hotCache)
       IN  IF WithinBudget(loc[t].mainBytes, hotBytes, cacheBytes)
           THEN /\ PopReturn(t)
                /\ loc' = [loc EXCEPT ![t].mainBytes = 0]
           ELSE /\ loc' = [loc EXCEPT ![t].victim = Victim(loc[t].mainBytes, hotBytes),
                                     ![t].mainBytes = 0]
                /\ pc' = [pc EXCEPT ![t] = "popEvict"]
                /\ UNCHANGED stats
    /\ UNCHANGED <<cacheBytes, mainCache, hotCache, gpeers, portPicker, pool,
                   sfmu, sfm, calls, serial, hist>>
    /\ UNCHANGED <<lruVars, tierVars, extVars>>

\* populateCache's loop: victim.removeOldest()
PopEvict(t) ==
    /\ pc[t] = "popEvict"
    /\ IF loc[t].victim = "main"
       THEN /\ mainCache' = cacheRemoveOldest(mainCache)
            /\ UNCHANGED hotCache
       ELSE /\ hotCache' = cacheRemoveOldest(hotCache)
            /\ UNCHANGED mainCache
    /\ loc' = [loc EXCEPT ![t].victim = ""]
    /\ pc' = [pc EXCEPT ![t] = "popMain"]
    /\ UNCHANGED <<cacheBytes, stats, gpeers, portPicker, pool, sfmu, sfm, calls, serial, hist>>
    /\ UNCHANGED <<lruVars, tierVars, extVars>>

\* a call that keeps the value and forgets the error
CallResultDropsErr(value, err) == [val |-> value, err |-> NilErr, done |-> TRUE]

\* the call struct after `c.val, c.err = fn()` and c.wg.Done()
CallResult(value, err) == [val |-> value, err |-> err, done |-> TRUE]

\* singleflight Do: fn has returned; c.val, c.err = fn(); c.wg.Done()
DoDone(t) ==
    /\ pc[t] = "doDone"
    /\ calls' = [calls EXCEPT ![loc[t].c] = CallResult(loc[t].value, loc[t].err)]
    /\ hist' = [hist EXCEPT !.produced =
                    (loc[t].c :> [val |-> loc[t].value, err |-> loc[t].err]) @@ @]
    /\ pc' = [pc EXCEPT ![t] = "doDelLock"]
    /\ UNCHANGED <<cacheBytes, mainCache, hotCache, stats, gpeers, portPicker, pool,
                   sfmu, sfm, loc, serial>>
    /\ UNCHANGED <<lruVars, tierVars, extVars>>

\* singleflight Do: the second g.mu.Lock()
DoDelLock(t) ==
    /\ pc[t] = "doDelLock"
    /\ sfmu = 0
    /\ sfmu' = t
    /\ pc' = [pc EXCEPT ![t] = "doDelete"]
    /\ UNCHANGED <<cacheBytes, mainCache, hotCache, stats, gpeers, portPicker, pool,
                   sfm, calls, loc, serial, hist>>
    /\ UNCHANGED <<lruVars, tierVars, extVars>>

\* a delete that leaves the map as it is
MapDeleteNothing(m, key) == m

\* the map without its entry for key
MapDelete(m, key) == [k \in DOMAIN m \ {key} |-> m[k]]

\* singleflight Do: delete(g.m, key), Unlock, return c.val, c.err; load and
\* Get finish
DoDelete(t) ==
    /\ pc[t] = "doDelete"
    /\ sfmu = t
    /\ sfm' = MapDelete(sfm, loc[t].key)
    /\ sfmu' = 0
    /\ LET c == calls[loc[t].c]
           l == AtReturn(getReturn(loc[t], c.val, c.err))
       IN  /\ loc' = [loc EXCEPT ![t] = l]
           /\ hist' = Returned(hist, l)
    /\ pc' = [pc EXCEPT ![t] = "done"]
    /\ UNCHANGED <<cacheBytes, mainCache, hotCache, stats, gpeers, portPicker, pool,
                   calls, serial>>
    /\ UNCHANGED <<lruVars, tierVars, extVars>>

\* the user loader panics: the panic unwinds Do, load and Get, none of which
\* defers anything, and is recovered by the caller of Get (net/http recovers
\* a panicking handler); the goroutine is out of Get for good
LoaderPanics(t) ==
    /\ pc[t] = "getLocally"
    /\ pc' = [pc EXCEPT ![t] = "panicked"]
    /\ UNCHANGED <<cacheBytes, mainCache, hotCache, stats, gpeers, portPicker, pool,
                   sfmu, sfm, calls, loc, serial, hist>>
    /\ UNCHANGED <<lruVars, tierVars, extVars>>

InitTierIdle ==
    /\ tier = ZeroTier
    /\ tierOp = [op |-> "none", key |-> "", before |-> ZeroTier, n |-> 0, dup |-> FALSE]

InitLruIdle ==
    /\ lru = New(0, FALSE)
    /\ evicted = <<>>
    /\ lastOp = [op |-> "none", key |-> "", hit |-> FALSE, before |-> <<>>]
    /\ clock = 0
    /\ lastUse = [k \in Keys |-> 0]

(***************************************************************************)
(* The consistent-hash ring on its own: a Map built with every hash        *)
(* function over a small domain, filled by Add, rebuilt the way            *)
(* HTTPPool.Set rebuilds it (New, then Add), and asked by Get.             *)
(***************************************************************************)
\* the peers and the keys of the stand-alone ring
RingPeers == {"A", "B", "C"}
RingKeys == {"k"}
\* the strings Add hashes for peers with the given number of replicas
VNodes(replicas) == {Itoa(i) \o p : i \in 0..(replicas - 1), p \in RingPeers}
\* the argument lists of Add: peers, none of them twice
RingLists ==
    {l \in UNION {[1..n -> RingPeers] : n \in 0..Cardinality(RingPeers)} :
        \A i, j \in DOMAIN l : i # j => l[i] # l[j]}

InitRing ==
    /\ \E replicas \in 0..MaxReplicas :
          \E fn \in [VNodes(replicas) \cup RingKeys -> 0..MaxHash] :
              /\ ring = MapNew(replicas, fn)
              /\ ringOp = [op |-> "none", key |-> "", got |-> "", peers |-> <<>>,
                           old |-> MapNew(replicas, fn), oldPeers |-> <<>>]

InitRingIdle ==
    /\ ring = MapNew(0, <<>>)
    /\ ringOp = [op |-> "none", key |-> "", got |-> "", peers |-> <<>>,
                 old |-> MapNew(0, <<>>), oldPeers |-> <<>>]

\* m.Add(peer) on the ring as it is
RingAdd(peer) ==
    /\ \A i \in DOMAIN ringOp.peers : ringOp.peers[i] # peer
    /\ ring' = MapAdd(ring, <<peer>>)
    /\ ringOp' = [op |-> "Add", key |-> "", got |-> "", peers |-> Append(ringOp.peers, peer),
                  old |-> ring, oldPeers |-> ringOp.peers]
    /\ UNCHANGED <<lruVars, tierVars, groupVars, poolVars, regVars>>

\* list l with peer d put in at position n
InsertAt(l, n, d) == SubSeq(l, 1, n - 1) \o <<d>> \o SubSeq(l, n, Len(l))

\* new is old plus one new peer, the order of the old peers kept
PlusOne(old, new) ==
    \E n \in 1..(Len(old) + 1), d \in RingPeers :
        /\ \A i \in DOMAIN old : old[i] # d
        /\ new = InsertAt(old, n, d)

\* the ring is replaced as HTTPPool.Set replaces it:
\* consistenthash.New(replicas, hash), then Add(peers...); the new list is
\* the old one plus one new peer
RingSet(peers) ==
    /\ PlusOne(ringOp.peers, peers)
    /\ ring' = MapAdd(MapNew(ring.replicas, ring.hash), peers)
    /\ ringOp' = [op |-> "Set", key |-> "", got |-> "", peers |-> peers,
                  old |-> ring, oldPeers |-> ringOp.peers]
    /\ UNCHANGED <<lruVars, tierVars, groupVars, poolVars, regVars>>

\* m.Get(key)
RingGet(key) ==
    /\ ringOp' = [op |-> "Get", key |-> key, got |-> MapGet(ring, key),
                  peers |-> ringOp.peers, old |-> ring, oldPeers |-> ringOp.peers]
    /\ UNCHANGED ring
    /\ UNCHANGED <<lruVars, tierVars, groupVars, poolVars, regVars>>

NextRing ==
    \/ \E peer \in RingPeers : RingAdd(peer)
    \/ \E peers \in RingLists : RingSet(peers)
    \/ \E key \in RingKeys : RingGet(key)

(***************************************************************************)
(* The HTTPPool under goroutines that call Set and PickPeer concurrently.  *)
(* A step is the acquisition of p.mu or one statement of the body; the     *)
(* deferred Unlock belongs to the step that returns.                       *)
(***************************************************************************)
PoolThreads == 1..NumThreads
\* a third peer
Third == "Q"
\* the memberships given to Set, and the keys asked of PickPeer
PoolLists == {<<>>, <<Self>>, <<Self, Other>>, <<Self, Third>>, <<Other, Third>>}
PoolKeys == {"a", "bb", "ccc"}

\* a goroutine's call: the arguments of Set or PickPeer, PickPeer's local
\* peer and its results; cands are the memberships that were the pool's, or
\* were being installed, at some time during the PickPeer call
ZeroPoolLocals ==
    [op |-> "", peers |-> <<>>, key |-> "", owner |-> "", getter |-> <<>>, ok |-> FALSE,
     cands |-> {}]

InitPool ==
    /\ hp = NewHTTPPoolOpts(Self, PoolReplicas, PoolHash)
    /\ hpmu = 0
    /\ hpc = [t \in PoolThreads |-> "idle"]
    /\ hloc = [t \in PoolThreads |-> ZeroPoolLocals]
    /\ hhist = [members |-> <<>>, calls |-> 0]

InitPoolIdle == InitPool

\* the goroutines inside a PickPeer call
InPick == {t \in PoolThreads : hpc[t] \in {"pickLock", "pickOwner", "pickGetter"}}
\* the memberships of the Set calls in progress
BeingSet == {hloc[t].peers : t \in {u \in PoolThreads : hpc[u] \in {"setLock", "setRing", "setAdd", "setGetters"}}}

\* Set(peers...) is called
HpSetCall(t, peers) ==
    /\ hpc[t] \in {"idle", "done"}
    /\ hhist.calls < MaxPoolCalls
    /\ hloc' = [u \in PoolThreads |->
                   IF u = t THEN [ZeroPoolLocals EXCEPT !.op = "Set", !.peers = peers]
                   ELSE IF u \in InPick THEN [hloc[u] EXCEPT !.cands = @ \cup {peers}]
                   ELSE hloc[u]]
    /\ hpc' = [hpc EXCEPT ![t] = "setLock"]
    /\ hhist' = [hhist EXCEPT !.calls = @ + 1]
    /\ UNCHANGED <<hp, hpmu>>
    /\ UNCHANGED <<lruVars, tierVars, groupVars, ringVars, regVars>>

\* a Lock that does not wait
MutexAlwaysFree(mu) == TRUE

\* sync.Mutex: Lock returns once the mutex is free
MutexFree(mu) == mu = 0

\* Set: p.mu.Lock()
HpSetLock(t) ==
    /\ hpc[t] = "setLock"
    /\ MutexFree(hpmu)
    /\ hpmu' = t
    /\ hpc' = [hpc EXCEPT ![t] = "setRing"]
    /\ UNCHANGED <<hp, hloc, hhist>>
    /\ UNCHANGED <<lruVars, tierVars, groupVars, ringVars, regVars>>

\* Set: p.peers = consistenthash.New(p.opts.Replicas, p.opts.HashFn)
HpSetRing(t) ==
    /\ hpc[t] = "setRing"
    /\ hp' = [hp EXCEPT !.peers = MapNew(hp.replicas, hp.hashFn)]
    /\ hpc' = [hpc EXCEPT ![t] = "setAdd"]
    /\ UNCHANGED <<hpmu, hloc, hhist>>
    /\ UNCHANGED <<lruVars, tierVars, groupVars, ringVars, regVars>>

\* Set: p.peers.Add(peers...)
HpSetAdd(t) ==
    /\ hpc[t] = "setAdd"
    /\ hp' = [hp EXCEPT !.peers = MapAdd(hp.peers, hloc[t].peers)]
    /\ hpc' = [hpc EXCEPT ![t] = "setGetters"]
    /\ UNCHANGED <<hpmu, hloc, hhist>>
    /\ UNCHANGED <<lruVars, tierVars, groupVars, ringVars, regVars>>

\* Set: the new httpGetters map with a getter for every peer; the deferred
\* Unlock, and Set returns
HpSetGetters(t) ==
    /\ hpc[t] = "setGetters"
    /\ hp' = [hp EXCEPT !.httpGetters =
                 [x \in {hloc[t].peers[i] : i \in DOMAIN hloc[t].peers} |-> x \o BasePath]]
    /\ hpmu' = 0
    /\ hpc' = [hpc EXCEPT ![t] = "done"]
    /\ hhist' = [hhist EXCEPT !.members = hloc[t].peers]
    /\ UNCHANGED hloc
    /\ UNCHANGED <<lruVars, tierVars, groupVars, ringVars, regVars>>

\* PickPeer(key) is called
HpPickCall(t, key) ==
    /\ hpc[t] \in {"idle", "done"}
    /\ hhist.calls < MaxPoolCalls
    /\ hloc' = [hloc EXCEPT ![t] = [ZeroPoolLocals EXCEPT !.op = "Pick", !.key = key,
                                       !.cands = {hhist.members} \cup BeingSet]]
    /\ hpc' = [hpc EXCEPT ![t] = "pickLock"]
    /\ hhist' = [hhist EXCEPT !.calls = @ + 1]
    /\ UNCHANGED <<hp, hpmu>>
    /\ UNCHANGED <<lruVars, tierVars, groupVars, ringVars, regVars>>

\* PickPeer: p.mu.Lock()
HpPickLock(t) ==
    /\ hpc[t] = "pickLock"
    /\ MutexFree(hpmu)
    /\ hpmu' = t
    /\ hpc' = [hpc EXCEPT ![t] = "pickOwner"]
    /\ UNCHANGED <<hp, hloc, hhist>>
    /\ UNCHANGED <<lruVars, tierVars, groupVars, ringVars, regVars>>

\* PickPeer: p.peers.IsEmpty(), p.peers.Get(key) and the comparison with
\* p.self; (nil, false) is returned for an empty ring or the own peer
HpPickOwner(t) ==
    /\ hpc[t] = "pickOwner"
    /\ IF MapIsEmpty(hp.peers) \/ ~IsRemote(hp, MapGet(hp.peers, hloc[t].key))
       THEN /\ hloc' = [hloc EXCEPT ![t].getter = <<>>, ![t].ok = FALSE]
            /\ hpmu' = 0
            /\ hpc' = [hpc EXCEPT ![t] = "done"]
       ELSE /\ hloc' = [hloc EXCEPT ![t].owner = MapGet(hp.peers, hloc[t].key)]
            /\ hpc' = [hpc EXCEPT ![t] = "pickGetter"]
            /\ UNCHANGED hpmu
    /\ UNCHANGED <<hp, hhist>>
    /\ UNCHANGED <<lruVars, tierVars, groupVars, ringVars, regVars>>

\* PickPeer: return p.httpGetters[peer], true (a map lookup that misses
\* yields nil); the deferred Unlock
HpPickGetter(t) ==
    /\ hpc[t] = "pickGetter"
    /\ hloc' = [hloc EXCEPT ![t].getter = IF hloc[t].owner \in DOMAIN hp.httpGetters
                                          THEN <<hp.httpGetters[hloc[t].owner]>> ELSE <<>>,
                            ![t].ok = TRUE]
    /\ hpmu' = 0
    /\ hpc' = [hpc EXCEPT ![t] = "done"]
    /\ UNCHANGED <<hp, hhist>>
    /\ UNCHANGED <<lruVars, tierVars, groupVars, ringVars, regVars>>

NextPool ==
    \/ \E t \in PoolThreads, peers \in PoolLists : HpSetCall(t, peers)
    \/ \E t \in PoolThreads : HpSetLock(t)
    \/ \E t \in PoolThreads : HpSetRing(t)
    \/ \E t \in PoolThreads : HpSetAdd(t)
    \/ \E t \in PoolThreads : HpSetGetters(t)
    \/ \E t \in PoolThreads, key \in PoolKeys : HpPickCall(t, key)
    \/ \E t \in PoolThreads : HpPickLock(t)
    \/ \E t \in PoolThreads : HpPickOwner(t)
    \/ \E t \in PoolThreads : HpPickGetter(t)

(***************************************************************************)
(* groupcache.go: the registry of groups under goroutines that call        *)
(* NewGroup, GetGroup and, on a created Group, the start of Get.  A Group  *)
(* is named by the order of its creation; 0 stands for the nil *Group.     *)
(***************************************************************************)
RegThreads == 1..NumThreads
GroupNames == {"g", "h"}

ZeroRegLocals ==
    [op |-> "", name |-> "", result |-> 0, atCall |-> 0, dup |-> FALSE,
     g |-> 0, slow |-> FALSE, peers |-> ""]

\* a new Group's peersOnce and peers (newGroup is given nil peers), with the
\* runs of initPeers and of getPeers made for it
NewGroupState == [done |-> FALSE, mu |-> 0, peers |-> "nil", inits |-> 0, lookups |-> 0]

\* the registry before any call; hookSet and pickerSet say whether
\* RegisterServerStart and RegisterPeerPicker were called
ZeroRegHist(hookSet, pickerSet) ==
    [made |-> 0, first |-> <<>>, once |-> FALSE, calls |-> 0,
     hookSet |-> hookSet, pickerSet |-> pickerSet, hooks |-> 0, hookAt |-> 0]

InitReg ==
    /\ groups = <<>>
    /\ regmu = [writer |-> 0, readers |-> {}]
    /\ rpc = [t \in RegThreads |-> "idle"]
    /\ rloc = [t \in RegThreads |-> ZeroRegLocals]
    /\ \E hookSet \in BOOLEAN, pickerSet \in BOOLEAN : rhist = ZeroRegHist(hookSet, pickerSet)
    /\ gstate = <<>>

InitRegIdle ==
    /\ groups = <<>>
    /\ regmu = [writer |-> 0, readers |-> {}]
    /\ rpc = [t \in RegThreads |-> "idle"]
    /\ rloc = [t \in RegThreads |-> ZeroRegLocals]
    /\ rhist = ZeroRegHist(FALSE, FALSE)
    /\ gstate = <<>>

\* the group registered under name, nil when there is none: groups[name]
GroupOf(gs, name) == IF name \in DOMAIN gs THEN gs[name] ELSE 0

\* NewGroup(name, cacheBytes, getter) is called; a nil getter panics before
\* the lock is taken
NgCall(t, name, nilGetter) ==
    /\ rpc[t] \in {"idle", "done"}
    /\ rhist.calls < MaxRegCalls
    /\ rloc' = [rloc EXCEPT ![t] = [ZeroRegLocals EXCEPT !.op = "New", !.name = name,
                                       !.atCall = GroupOf(groups, name)]]
    /\ rpc' = [rpc EXCEPT ![t] = IF nilGetter THEN "panicked" ELSE "ngLock"]
    /\ rhist' = [rhist EXCEPT !.calls = @ + 1]
    /\ UNCHANGED <<groups, regmu, gstate>>
    /\ UNCHANGED <<lruVars, tierVars, groupVars, ringVars, poolVars>>

\* newGroup: mu.Lock()
NgLock(t) ==
    /\ rpc[t] = "ngLock"
    /\ regmu.writer = 0 /\ regmu.readers = {}
    /\ regmu' = [regmu EXCEPT !.writer = t]
    /\ rpc' = [rpc EXCEPT ![t] = "ngBody"]
    /\ UNCHANGED <<groups, rloc, rhist, gstate>>
    /\ UNCHANGED <<lruVars, tierVars, groupVars, ringVars, poolVars>>

\* a registry that takes no name for registered
NeverDup(gs, name) == FALSE

\* newGroup: `_, dup := groups[name]`
IsDup(gs, name) == name \in DOMAIN gs

\* a Once that runs its function on every Do
OnceAlwaysRuns(done) == TRUE

\* sync.Once.Do(f) runs f when no Do of this Once has completed
OnceMustRun(done) == ~done

\* initPeerServerOnce.Do(callInitPeerServer), under the registry lock:
\* callInitPeerServer runs the registered server-start hook, if any
ServerOnce(h) ==
    IF OnceMustRun(h.once)
    THEN IF h.hookSet
         THEN [h EXCEPT !.once = TRUE, !.hooks = @ + 1, !.hookAt = h.made]
         ELSE [h EXCEPT !.once = TRUE]
    ELSE h

\* newGroup under the lock: initPeerServerOnce.Do, the duplicate check
\* (panic), the new Group, groups[name] = g; the deferred mu.Unlock() runs
\* on return and on panic alike
NgBody(t) ==
    /\ rpc[t] = "ngBody"
    /\ IF IsDup(groups, rloc[t].name)
       THEN /\ rpc' = [rpc EXCEPT ![t] = "panicked"]
            /\ rloc' = [rloc EXCEPT ![t].dup = TRUE]
            /\ rhist' = ServerOnce(rhist)
            /\ UNCHANGED <<groups, gstate>>
       ELSE /\ groups' = (rloc[t].name :> (rhist.made + 1)) @@ groups
            /\ rloc' = [rloc EXCEPT ![t].result = rhist.made + 1]
            /\ rhist' = [ServerOnce(rhist) EXCEPT
                            !.made = @ + 1,
                            !.first = @ @@ (rloc[t].name :> (rhist.made + 1))]
            /\ gstate' = Append(gstate, NewGroupState)
            /\ rpc' = [rpc EXCEPT ![t] = "done"]
    /\ regmu' = [regmu EXCEPT !.writer = 0]
    /\ UNCHANGED <<lruVars, tierVars, groupVars, ringVars, poolVars>>

\* GetGroup(name) is called
GgCall(t, name) ==
    /\ rpc[t] \in {"idle", "done"}
    /\ rhist.calls < MaxRegCalls
    /\ rloc' = [rloc EXCEPT ![t] = [ZeroRegLocals EXCEPT !.op = "Get", !.name = name,
                                       !.atCall = GroupOf(groups, name)]]
    /\ rpc' = [rpc EXCEPT ![t] = "ggRLock"]
    /\ rhist' = [rhist EXCEPT !.calls = @ + 1]
    /\ UNCHANGED <<groups, regmu, gstate>>
    /\ UNCHANGED <<lruVars, tierVars, groupVars, ringVars, poolVars>>

\* GetGroup: mu.RLock()
GgRLock(t) ==
    /\ rpc[t] = "ggRLock"
    /\ regmu.writer = 0
    /\ regmu' = [regmu EXCEPT !.readers = @ \cup {t}]
    /\ rpc' = [rpc EXCEPT ![t] = "ggRead"]
    /\ UNCHANGED <<groups, rloc, rhist, gstate>>
    /\ UNCHANGED <<lruVars, tierVars, groupVars, ringVars, poolVars>>

\* GetGroup: g := groups[name]; mu.RUnlock(); return g
GgRead(t) ==
    /\ rpc[t] = "ggRead"
    /\ rloc' = [rloc EXCEPT ![t].result = GroupOf(groups, rloc[t].name)]
    /\ regmu' = [regmu EXCEPT !.readers = @ \ {t}]
    /\ rpc' = [rpc EXCEPT ![t] = "done"]
    /\ UNCHANGED <<groups, rhist, gstate>>
    /\ UNCHANGED <<lruVars, tierVars, groupVars, ringVars, poolVars>>

\* Group.Get is called on the group g: g.peersOnce.Do(g.initPeers) returns
\* at once when a Do has completed, and else goes for the Once's mutex
UseCall(t, g) ==
    /\ rpc[t] \in {"idle", "done"}
    /\ rhist.calls < MaxRegCalls
    /\ rloc' = [rloc EXCEPT ![t] = [ZeroRegLocals EXCEPT !.op = "Use", !.g = g]]
    /\ rpc' = [rpc EXCEPT ![t] = IF OnceMustRun(gstate[g].done) THEN "useOnceLock"
                                 ELSE "usePick"]
    /\ rhist' = [rhist EXCEPT !.calls = @ + 1]
    /\ UNCHANGED <<groups, regmu, gstate>>
    /\ UNCHANGED <<lruVars, tierVars, groupVars, ringVars, poolVars>>

\* peersOnce.Do: the Once's mutex is taken; a Do that finds the Once done
\* by then releases it and returns, and else runs initPeers holding it
UseOnceLock(t) ==
    /\ rpc[t] = "useOnceLock"
    /\ gstate[rloc[t].g].mu = 0
    /\ IF OnceMustRun(gstate[rloc[t].g].done)
       THEN /\ gstate' = [gstate EXCEPT ![rloc[t].g].mu = t]
            /\ rpc' = [rpc EXCEPT ![t] = "useInit"]
            /\ UNCHANGED rloc
       ELSE /\ rloc' = [rloc EXCEPT ![t].slow = TRUE]
            /\ rpc' = [rpc EXCEPT ![t] = "usePick"]
            /\ UNCHANGED gstate
    /\ UNCHANGED <<groups, regmu, rhist>>
    /\ UNCHANGED <<lruVars, tierVars, groupVars, ringVars, poolVars>>

\* Group.initPeers: g.peers = getPeers(g.name) when g.peers is nil; the Once
\* is then marked done and its mutex released
initPeers(gs, pickerSet) ==
    IF gs.peers = "nil"
    THEN [gs EXCEPT !.peers = getPeers(pickerSet), !.lookups = @ + 1, !.inits = @ + 1,
                    !.done = TRUE, !.mu = 0]
    ELSE [gs EXCEPT !.inits = @ + 1, !.done = TRUE, !.mu = 0]

\* peersOnce.Do: initPeers runs and returns
UseInit(t) ==
    /\ rpc[t] = "useInit"
    /\ gstate' = [gstate EXCEPT ![rloc[t].g] = initPeers(@, rhist.pickerSet)]
    /\ rpc' = [rpc EXCEPT ![t] = "usePick"]
    /\ UNCHANGED <<groups, regmu, rloc, rhist>>
    /\ UNCHANGED <<lruVars, tierVars, groupVars, ringVars, poolVars>>

\* the Get consults the group's picker: g.peers.PickPeer(key)
UsePick(t) ==
    /\ rpc[t] = "usePick"
    /\ rloc' = [rloc EXCEPT ![t].peers = gstate[rloc[t].g].peers]
    /\ rpc' = [rpc EXCEPT ![t] = "done"]
    /\ UNCHANGED <<groups, regmu, rhist, gstate>>
    /\ UNCHANGED <<lruVars, tierVars, groupVars, ringVars, poolVars>>

NextReg ==
    \/ \E t \in RegThreads, name \in GroupNames, nilGetter \in BOOLEAN : NgCall(t, name, nilGetter)
    \/ \E t \in RegThreads : NgLock(t)
    \/ \E t \in RegThreads : NgBody(t)
    \/ \E t \in RegThreads, name \in GroupNames : GgCall(t, name)
    \/ \E t \in RegThreads : GgRLock(t)
    \/ \E t \in RegThreads : GgRead(t)
    \/ \E t \in RegThreads : \E g \in DOMAIN gstate : UseCall(t, g)
    \/ \E t \in RegThreads : UseOnceLock(t)
    \/ \E t \in RegThreads : UseInit(t)
    \/ \E t \in RegThreads : UsePick(t)

InitExtIdle == InitRingIdle /\ InitPoolIdle /\ InitRegIdle

RingInit == InitRing /\ InitLruIdle /\ InitTierIdle /\ InitGroupIdle /\ InitPoolIdle /\ InitRegIdle

\* the consistent-hash ring on its own
SpecRing == RingInit /\ [][NextRing]_vars

PoolInit == InitPool /\ InitLruIdle /\ InitTierIdle /\ InitGroupIdle /\ InitRingIdle /\ InitRegIdle

\* the HTTPPool under concurrent Set and PickPeer
SpecPool == PoolInit /\ [][NextPool]_vars

RegInit == InitReg /\ InitLruIdle /\ InitTierIdle /\ InitGroupIdle /\ InitRingIdle /\ InitPoolIdle

\* the registry of groups under concurrent NewGroup and GetGroup
SpecReg == RegInit /\ [][NextReg]_vars

NextLru ==
    \/ \E key \in Keys, value \in Values : LruAdd(key, value)
    \/ \E key \in Keys : LruGet(key)
    \/ \E key \in Keys : LruRemove(key)
    \/ LruRemoveOldest
    \/ LruClear

LruInit == InitLru /\ InitTierIdle /\ InitGroupIdle /\ InitExtIdle

\* the LRU engine on its own
SpecLru == LruInit /\ [][NextLru]_vars

NextTier ==
    \/ \E key \in Keys, value \in Values : TierAdd(key, value)
    \/ \E key \in Keys : TierGet(key)
    \/ TierRemoveOldest

TierInit == InitTier /\ InitLruIdle /\ InitGroupIdle /\ InitExtIdle

\* the cache tier on its own
SpecTier == TierInit /\ [][NextTier]_vars

Next ==
    \/ \E t \in Threads, key \in GroupKeys, hasDest \in BOOLEAN : GetCall(t, key, hasDest)
    \/ \E t \in Threads : LookupMain(t)
    \/ \E t \in Threads : LookupHot(t)
    \/ \E t \in Threads : DoLock(t)
    \/ \E t \in Threads : DoCheck(t)
    \/ \E t \in Threads : DoWait(t)
    \/ \E t \in Threads : FnLookupMain(t)
    \/ \E t \in Threads : FnLookupHot(t)
    \/ \E t \in Threads : FnPickPeer(t)
    \/ \E t \in Threads, failed \in BOOLEAN, toHot \in BOOLEAN : PeerReply(t, failed, toHot)
    \/ \E t \in Threads, failed \in BOOLEAN : LoaderReturn(t, failed)
    \/ \E t \in Threads : PopAdd(t)
    \/ \E t \in Threads : PopReadMain(t)
    \/ \E t \in Threads : PopReadHot(t)
    \/ \E t \in Threads : PopEvict(t)
    \/ \E t \in Threads : DoDone(t)
    \/ \E t \in Threads : DoDelLock(t)
    \/ \E t \in Threads : DoDelete(t)

Init == InitGroup /\ InitLruIdle /\ InitTierIdle /\ InitExtIdle

\* a Group under concurrent Gets, with a user loader that returns
Spec == Init /\ [][Next]_vars

NextPanic ==
    \/ Next
    \/ \E t \in Threads : LoaderPanics(t)

\* the same, with a user loader that may also panic
SpecPanic == Init /\ [][NextPanic]_vars

\* the next step of goroutine t inside Get that waits for nothing but the
\* tiers' mutexes (released before cache.get, add, bytes and removeOldest
\* return) and, in DoWait, for the producer's c.wg.Done()
GetStep(t) ==
    \/ LookupMain(t) \/ LookupHot(t) \/ DoCheck(t) \/ DoWait(t)
    \/ FnLookupMain(t) \/ FnLookupHot(t) \/ FnPickPeer(t)
    \/ PopAdd(t) \/ PopReadMain(t) \/ PopReadHot(t) \/ PopEvict(t)
    \/ DoDone(t) \/ DoDelete(t)

\* the group with a budget of 4 bytes and a picker that knows a remote peer
FairInit ==
    /\ Init
    /\ cacheBytes = 4
    /\ portPicker
    /\ pool = PoolSet(NewHTTPPoolOpts(Self, PoolReplicas, PoolHash), <<Self, Other>>)

\* a Group under concurrent Gets whose goroutines are scheduled again
\* (GetStep), whose peer calls and loader return, with a value or an error
\* (PeerReply, LoaderReturn), and whose sync.Mutex hands g.mu of singleflight
\* Do to a goroutine that keeps asking for it (DoLock, DoDelLock)
SpecFair ==
    /\ FairInit
    /\ [][Next]_vars
    /\ \A t \in Threads :
          /\ WF_vars(GetStep(t))
          /\ WF_vars(\/ \E failed \in BOOLEAN, toHot \in BOOLEAN : PeerReply(t, failed, toHot)
                     \/ \E failed \in BOOLEAN : LoaderReturn(t, failed))
          /\ SF_vars(DoLock(t) \/ DoDelLock(t))

(***************************************************************************)
(* populateCache on its own: goroutines whose loads have reached           *)
(* populateCache, with keys and values of costs from 0 to more than the    *)
(* budget.  The steps of populateCache are those of the Group.             *)
(***************************************************************************)
SweepKeys == {"", "a", "ccc"}
SweepValues == {<<>>, <<1>>, <<1, 1, 1, 1, 1>>}
SweepBudgets == {1, 9}

InitSweep ==
    /\ cacheBytes \in SweepBudgets
    /\ mainCache = ZeroTier
    /\ hotCache = ZeroTier
    /\ stats = ZeroStats
    /\ gpeers = "nil"
    /\ portPicker = FALSE
    /\ pool = NewHTTPPoolOpts(Self, PoolReplicas, PoolHash)
    /\ sfmu = 0
    /\ sfm = <<>>
    /\ calls = <<>>
    /\ pc = [t \in Threads |-> "idle"]
    /\ loc = [t \in Threads |-> ZeroLocals]
    /\ serial = 0
    /\ hist = ZeroHist

\* the keys a tier holds
TierKeys(c) == KeysOf([ll |-> TierEntries(c)])

\* a load of key (Loads++) has missed both tiers in its producer and got
\* value, from the user loader (fromPeer = FALSE) or from the owning peer
\* with rand.Intn(10) = 0, and calls populateCache; single-flight lets one
\* producer run per key
SweepCall(t, key, value, fromPeer) ==
    /\ pc[t] \in {"idle", "done"}
    /\ stats.Loads < MaxSweeps
    /\ key \notin TierKeys(mainCache) \cup TierKeys(hotCache)
    /\ \A t2 \in Threads : pc[t2] \in {"idle", "done"} \/ loc[t2].key # key
    /\ stats' = [stats EXCEPT !.Loads = @ + 1]
    /\ loc' = [loc EXCEPT ![t] = [ZeroLocals EXCEPT !.key = key, !.value = value,
                                                    !.target = PopulateTarget(fromPeer)]]
    /\ pc' = [pc EXCEPT ![t] = "popAdd"]
    /\ UNCHANGED <<cacheBytes, mainCache, hotCache, gpeers, portPicker, pool,
                   sfmu, sfm, calls, serial, hist>>
    /\ UNCHANGED <<lruVars, tierVars, extVars>>

\* populateCache has returned and the load returns the value
SweepReturn(t) ==
    /\ pc[t] = "doDone"
    /\ loc' = [loc EXCEPT ![t] = AtReturn([loc[t] EXCEPT !.ret = RetNil])]
    /\ pc' = [pc EXCEPT ![t] = "done"]
    /\ UNCHANGED <<cacheBytes, mainCache, hotCache, stats, gpeers, portPicker, pool,
                   sfmu, sfm, calls, serial, hist>>
    /\ UNCHANGED <<lruVars, tierVars, extVars>>

NextSweep ==
    \/ \E t \in Threads, key \in SweepKeys, value \in SweepValues, fromPeer \in BOOLEAN :
          SweepCall(t, key, value, fromPeer)
    \/ \E t \in Threads : PopAdd(t)
    \/ \E t \in Threads : PopReadMain(t)
    \/ \E t \in Threads : PopReadHot(t)
    \/ \E t \in Threads : PopEvict(t)
    \/ \E t \in Threads : SweepReturn(t)

SweepInit == InitSweep /\ InitLruIdle /\ InitTierIdle /\ InitExtIdle

\* populateCache under concurrent callers
SpecSweep == SweepInit /\ [][NextSweep]_vars

\* the group whose budget every entry but the empty one and the one-byte
\* ones exceeds
SweepFairInit == SweepInit /\ cacheBytes = 1

\* populateCache under concurrent callers, each goroutine inside
\* populateCache being scheduled again: it blocks only on the tiers'
\* mutexes, which cache.add, cache.bytes and cache.removeOldest release
\* before they return
SpecSweepFair ==
    SweepFairInit /\ [][NextSweep]_vars /\ \A t \in Threads :
        WF_vars(PopAdd(t) \/ PopReadMain(t) \/ PopReadHot(t) \/ PopEvict(t))

(***************************************************************************)
(* Properties of the cache tier on its own (SpecTier).                     *)
(***************************************************************************)
\* the tier's byte total is the summed cost of the entries its LRU holds
TierBytesExact(c) == c.nbytes = SumCost(TierEntries(c))

\* the last call was a removeOldest that evicted an entry
TierEvicted == tierOp.op = "removeOldest" /\ TierEntries(tierOp.before) # <<>>

\* an eviction lowers the byte total by the evicted entry's cost and raises
\* the eviction counter by one
TierEvictionExact ==
    TierEvicted =>
        LET old == TierEntries(tierOp.before)
            e   == old[Len(old)]
        IN  /\ tier.nbytes = tierOp.before.nbytes - (Len(e.key) + ByteViewLen(e.value))
            /\ tier.nevict = tierOp.before.nevict + 1
            /\ TierEntries(tier) = SubSeq(old, 1, Len(old) - 1)

\* C8 as stated: after any sequence of add, get and removeOldest calls, keys
\* repeating across add calls or not, the tier's byte total equals the summed
\* cost of the entries in its LRU, and each eviction lowers the total by the
\* evicted entry's cost and raises the eviction counter by one.
C8_TierBytesAnySequence == TierBytesExact(tier) /\ TierEvictionExact

\* C8 amended: the same, for the sequences of calls in which add is never
\* given a key the tier holds at that moment.
C8_TierBytesNoRepeatedAdd == (~tierOp.dup => TierBytesExact(tier)) /\ TierEvictionExact

\* an eviction has just happened in a tier that holds entries of several
\* keys and was never given a key it held
C8_Witness ==
    /\ TierEvicted
    /\ ~tierOp.dup
    /\ Len(TierEntries(tier)) >= 2
    /\ tier.nbytes > 0

(***************************************************************************)
(* Properties of the LRU engine on its own (SpecLru).                      *)
(***************************************************************************)
\* the key of `ll` whose last Add / Get hit is the oldest
LeastRecent(ll) ==
    CHOOSE k \in KeysOf([ll |-> ll]) :
        \A k2 \in KeysOf([ll |-> ll]) : lastUse[k] <= lastUse[k2]

\* C9: the list order is the recency order: the key of the last Add or Get
\* hit is at the front, the list is sorted by last use, RemoveOldest removes
\* the least recently used entry, and adding a new key to a full bounded LRU
\* evicts exactly the least recently used entry, so Len <= MaxEntries.
C9_ListIsRecencyOrder ==
    /\ \A i, j \in 1..Len(lru.ll) :
          i < j => lastUse[lru.ll[i].key] > lastUse[lru.ll[j].key]
    /\ (lastOp.op = "Add" \/ (lastOp.op = "Get" /\ lastOp.hit)) =>
          /\ LruLen(lru) > 0
          /\ lru.ll[1].key = lastOp.key
    /\ (lastOp.op = "RemoveOldest" /\ lastOp.before # <<>>) =>
          KeysOf(lru) = KeysOf([ll |-> lastOp.before]) \ {LeastRecent(lastOp.before)}
    /\ lru.MaxEntries > 0 => LruLen(lru) <= lru.MaxEntries
    /\ (/\ lastOp.op = "Add"
        /\ ~lastOp.hit
        /\ lru.MaxEntries > 0
        /\ Len(lastOp.before) = lru.MaxEntries) =>
          KeysOf(lru) = (KeysOf([ll |-> lastOp.before]) \ {LeastRecent(lastOp.before)})
                            \cup {lastOp.key}

\* a new key was added to a full LRU of two entries whose least recently
\* used entry was not the first one inserted (a Get hit had reordered them)
C9_Witness ==
    /\ lastOp.op = "Add"
    /\ ~lastOp.hit
    /\ lru.MaxEntries = 2
    /\ Len(lastOp.before) = 2
    /\ LruLen(lru) = 2
    /\ lastOp.before[1].key \in KeysOf(lru)
    /\ clock >= 4

\* the entries of the list `before` whose key the engine no longer holds
Departed == {i \in 1..Len(lastOp.before) : lastOp.before[i].key \notin KeysOf(lru)}

\* C10: with a callback installed, an operation calls it exactly once, with
\* the entry's own key and value, for every entry that left the cache in that
\* operation, and for no other entry.
C10_CallbackOncePerDeparture ==
    lru.OnEvicted =>
        /\ \A i \in Departed :
              Cardinality({n \in DOMAIN evicted :
                              /\ evicted[n].key = lastOp.before[i].key
                              /\ evicted[n].value = lastOp.before[i].value}) = 1
        /\ \A n \in DOMAIN evicted :
              \E i \in Departed :
                  /\ evicted[n].key = lastOp.before[i].key
                  /\ evicted[n].value = lastOp.before[i].value
        /\ Len(evicted) = Cardinality(Departed)

\* Clear has just emptied an engine that held two entries, calling back twice
C10_Witness ==
    /\ lru.OnEvicted
    /\ lastOp.op = "Clear"
    /\ Len(lastOp.before) = 2
    /\ Len(evicted) = 2

(***************************************************************************)
(* The Group and its single-flight gate under concurrent Gets.             *)
(***************************************************************************)
\* a goroutine is executing the producer fn that Do was given
FnPcs == {"fnLookupMain", "fnLookupHot", "pick", "peerGet", "getLocally",
          "popAdd", "popMain", "popHot", "popEvict"}
\* a goroutine is inside populateCache, after its cache.add
PopPcs == {"popMain", "popHot", "popEvict"}
\* no Get is in progress
Quiescent == \A t \in Threads : pc[t] \in {"idle", "done"}

\* C1: under every interleaving of concurrent Do calls, at most one producer
\* invocation is executing for any given key at any moment; producers for
\* different keys may overlap.
C1_OneProducerPerKey ==
    \A t1, t2 \in Threads :
        (t1 # t2 /\ pc[t1] \in FnPcs /\ pc[t2] \in FnPcs) => loc[t1].key # loc[t2].key

\* a producer is executing for a key while another Do for the same key waits
\* on its record
C1_Witness ==
    \E t1, t2 \in Threads :
        /\ pc[t1] \in FnPcs
        /\ pc[t2] = "doWait"
        /\ loc[t1].key = loc[t2].key
        /\ loc[t2].c = loc[t1].c

\* C2: a Do call that found an in-flight record and waited on it returns
\* exactly the (value, error) pair the producer invocation owning the record
\* returned, and the waiter's own producer is never invoked.
C2_WaiterGetsOwnersResult ==
    \A t \in Threads :
        loc[t].waited =>
            /\ pc[t] \in {"doWait", "done"}
            /\ ~loc[t].filled /\ ~loc[t].reprobed
            /\ pc[t] = "done" =>
                  /\ loc[t].c \in DOMAIN hist.produced
                  /\ loc[t].value = hist.produced[loc[t].c].val
                  /\ loc[t].err = hist.produced[loc[t].c].err

\* a waiter has returned the value another goroutine's producer made
C2_Witness ==
    \E t \in Threads :
        /\ pc[t] = "done"
        /\ loc[t].waited
        /\ loc[t].ret = RetNil
        /\ loc[t].value # <<>>
        /\ loc[t].value = hist.produced[loc[t].c].val

\* C3: if the producer passed to Do panics, the in-flight record for the key
\* is still removed from the map and every caller waiting on the record is
\* released and observes an error.
C3_PanicReleasesRecord ==
    \A t \in Threads :
        pc[t] = "panicked" =>
            /\ ~(InFlight(sfm, loc[t].key) /\ sfm[loc[t].key] = loc[t].c)
            /\ calls[loc[t].c].done
            /\ calls[loc[t].c].err # NilErr

\* the case of C4 for key k: a budget B > 0, the group owns k, the entry for
\* k fits in B, only k is asked, and every Get started before any returned
C4_Case(k) ==
    /\ cacheBytes > 0
    /\ ~PickPeer(getPeers(portPicker), pool, k).ok
    /\ Len(k) + ByteViewLen(LoaderValue(k, 1)) <= cacheBytes
    /\ \A k2 \in GroupKeys \ {k} : hist.asked[k2] = 0
    /\ ~hist.sequential

\* what C4 promises for key k
C4_Promise(k) ==
    /\ hist.loader[k] <= 1
    /\ Cardinality(hist.got[k]) <= 1
    /\ (Quiescent /\ hist.asked[k] >= 2) =>
          (stats.LocalLoads = 1 /\ stats.LoadsDeduped = 1)

\* C4 as stated: N >= 2 concurrent Get(k) calls on a group with budget B > 0
\* that owns k and whose entry for k fits in B invoke the user loader at most
\* once, all receive the same bytes, and at quiescence localLoads = 1 and
\* loadsDeduped = 1.
C4_LoaderAtMostOnce == \A k \in GroupKeys : C4_Case(k) => C4_Promise(k)

\* C4, amended: the same when the loader returns no error.
C4_LoaderAtMostOnceOnSuccess ==
    \A k \in GroupKeys : (C4_Case(k) /\ ~hist.loaderFailed) => C4_Promise(k)

\* two concurrent Gets of an owned key have returned, one from its own
\* loader invocation, the other from the re-probe inside its own producer
C4_Witness ==
    \E k \in GroupKeys :
        /\ C4_Case(k) /\ ~hist.loaderFailed
        /\ Quiescent /\ hist.asked[k] >= 2
        /\ stats.LocalLoads = 1 /\ stats.LoadsDeduped = 1
        /\ \E t1, t2 \in Threads :
              /\ loc[t1].filled /\ loc[t1].ret = RetNil
              /\ loc[t2].reprobed /\ loc[t2].ret = RetNil

\* the views a Get of key k may deliver: the owning peer's, or one of the
\* loader's
ViewsFor(k) == {PeerValue(k)} \cup {LoaderValue(k, n) : n \in 1..serial}

\* C5: every Get(k, sink) that returns success leaves the sink holding the
\* value for k; a caller that shared another caller's load, or hit the cache,
\* gets the view copied into its sink, and only the caller whose own loader
\* invocation filled the sink skips the copy.
C5_SinkHoldsValue ==
    \A t \in Threads :
        (pc[t] = "done" /\ loc[t].ret = RetNil) =>
            /\ loc[t].sink # <<>>
            /\ loc[t].sink[1] \in ViewsFor(loc[t].key)
            /\ loc[t].copied <=> ~loc[t].filled
            /\ loc[t].copied => loc[t].sink[1] = loc[t].value
            /\ (loc[t].waited \/ loc[t].reprobed \/ loc[t].c = 0) => loc[t].copied

\* one Get returned the view its own loader put in its sink, and another,
\* which waited on that load, holds a copy of the same view
C5_Witness ==
    \E t1, t2 \in Threads :
        /\ pc[t1] = "done" /\ loc[t1].ret = RetNil
        /\ loc[t1].filled /\ ~loc[t1].copied
        /\ pc[t2] = "done" /\ loc[t2].ret = RetNil
        /\ loc[t2].waited /\ loc[t2].copied
        /\ loc[t2].c = loc[t1].c
        /\ loc[t2].sink = loc[t1].sink

\* goroutine t returns from a successful Get, or from populateCache, in
\* this step
ReturnsInStep(t) ==
    \/ pc[t] # "done" /\ pc'[t] = "done" /\ loc'[t].ret = RetNil
    \/ pc[t] \in {"popAdd", "popHot"} /\ pc'[t] = "doDone"

\* C6 as stated: with a budget B > 0, at the moment any Get or populateCache
\* call returns, main.bytes + hot.bytes <= B, under every interleaving.
C6_BudgetAtEveryReturn ==
    [][(cacheBytes > 0 /\ \E t \in Threads : ReturnsInStep(t)) =>
          cacheBytesOf(mainCache') + cacheBytesOf(hotCache') <= cacheBytes]_vars

\* C6, amended: with a budget B > 0, whenever no goroutine is inside
\* populateCache (so at every return of a Get or populateCache that no
\* other populateCache overlaps), main.bytes + hot.bytes <= B.
C6_BudgetWhenNoPopulate ==
    (cacheBytes > 0 /\ \A t \in Threads : pc[t] \notin PopPcs) =>
        cacheBytesOf(mainCache) + cacheBytesOf(hotCache) <= cacheBytes

\* a Get has returned after populateCache evicted, with nobody in
\* populateCache
C6_Witness ==
    /\ cacheBytes > 0
    /\ \A t \in Threads : pc[t] \notin PopPcs
    /\ mainCache.nevict + hotCache.nevict > 0
    /\ cacheBytesOf(mainCache) + cacheBytesOf(hotCache) > 0
    /\ \E t \in Threads : pc[t] = "done" /\ loc[t].ret = RetNil /\ loc[t].filled

\* C7: in every execution of a Group, each tier's nbytes equals the sum of
\* len(key)+len(value) over the entries in its LRU, and a key is never added
\* to a tier that already holds it.
C7_GroupTiersBilledOnce ==
    /\ TierBytesExact(mainCache)
    /\ TierBytesExact(hotCache)
    /\ ~hist.dupAdd

\* at a quiescent point with entries in both tiers, a Get has returned from
\* the re-probe inside its own producer
C7_Witness ==
    /\ Quiescent
    /\ TierEntries(mainCache) # <<>>
    /\ TierEntries(hotCache) # <<>>
    /\ \E t \in Threads : pc[t] = "done" /\ loc[t].reprobed /\ loc[t].ret = RetNil

(***************************************************************************)
(* The LRU engine's eviction callback and the key-to-node index.           *)
(***************************************************************************)
\* C11: when the engine removes an entry (Remove, RemoveOldest or overflow
\* eviction in Add), the key is still present in the key-to-node index at
\* the time the eviction callback executes.
C11_CallbackBeforeIndexForgotten ==
    lastOp.op \in {"Add", "Remove", "RemoveOldest"} =>
        \A n \in DOMAIN evicted : evicted[n].indexed

(***************************************************************************)
(* The consistent-hash ring.                                               *)
(***************************************************************************)
\* the virtual-node hashes of a ring built over peers
VHashes(peers, replicas, fn) ==
    {fn[Itoa(i) \o peers[n]] : n \in DOMAIN peers, i \in 0..(replicas - 1)}

\* the least and the greatest element of a non-empty set of integers
MinOf(S) == CHOOSE x \in S : \A y \in S : x <= y
MaxOf(S) == CHOOSE x \in S : \A y \in S : x >= y

\* the peer a virtual-node hash x is mapped to: the last peer of the list
\* with a virtual node of that hash
MappedPeer(peers, replicas, fn, x) ==
    peers[MaxOf({n \in DOMAIN peers : \E i \in 0..(replicas - 1) : fn[Itoa(i) \o peers[n]] = x})]

\* the owner of key on a ring built over peers, as the ring is specified
RingOwner(peers, replicas, fn, key) ==
    LET hs == VHashes(peers, replicas, fn)
        ge == {x \in hs : x >= fn[key]}
    IN  IF hs = {} THEN ""
        ELSE MappedPeer(peers, replicas, fn, IF ge # {} THEN MinOf(ge) ELSE MinOf(hs))

\* C12: Get(key) on a non-empty ring returns the peer mapped to the least
\* virtual-node hash >= hash(key), and to the smallest virtual-node hash when
\* hash(key) exceeds them all; on an empty ring it returns the empty string;
\* the peer returned is one of the peers added.
C12_GetReturnsSuccessor ==
    ringOp.op = "Get" =>
        /\ ringOp.got = RingOwner(ringOp.peers, ring.replicas, ring.hash, ringOp.key)
        /\ VHashes(ringOp.peers, ring.replicas, ring.hash) = {} => ringOp.got = ""
        /\ VHashes(ringOp.peers, ring.replicas, ring.hash) # {} =>
              \E n \in DOMAIN ringOp.peers : ringOp.got = ringOp.peers[n]

\* a Get wrapped around: the key hashes above every virtual node of a ring
\* of two peers whose virtual nodes do not all collide
C12_Witness ==
    /\ ringOp.op = "Get"
    /\ Len(ringOp.peers) >= 2
    /\ Cardinality(VHashes(ringOp.peers, ring.replicas, ring.hash)) >= 2
    /\ \A x \in VHashes(ringOp.peers, ring.replicas, ring.hash) : x < ring.hash[ringOp.key]
    /\ ringOp.got # ""

\* C13: when a ring over a peer list is replaced by a ring (same replicas,
\* same hash, same peer order) over that list plus one new peer, every key
\* keeps its owner or becomes owned by the new peer.
C13_KeysMoveOnlyToNewPeer ==
    (ringOp.op \in {"Set", "Add"} /\ PlusOne(ringOp.oldPeers, ringOp.peers)) =>
        \A key \in RingKeys :
            \/ MapGet(ring, key) = MapGet(ringOp.old, key)
            \/ /\ MapGet(ring, key) \in {ringOp.peers[n] : n \in DOMAIN ringOp.peers}
               /\ MapGet(ring, key) \notin {ringOp.oldPeers[n] : n \in DOMAIN ringOp.oldPeers}

\* a ring of two peers was rebuilt with a third put in between them, one of
\* whose virtual nodes collides with an old peer's, and the key moved to it
C13_Witness ==
    /\ ringOp.op = "Set"
    /\ Len(ringOp.oldPeers) = 2 /\ Len(ringOp.peers) = 3
    /\ ringOp.peers[1] = ringOp.oldPeers[1] /\ ringOp.peers[3] = ringOp.oldPeers[2]
    /\ VHashes(<<ringOp.peers[2]>>, ring.replicas, ring.hash)
          \cap VHashes(ringOp.oldPeers, ring.replicas, ring.hash) # {}
    /\ \E key \in RingKeys :
          /\ MapGet(ring, key) = ringOp.peers[2]
          /\ MapGet(ringOp.old, key) # ""

(***************************************************************************)
(* The HTTPPool: PickPeer, alone and against a concurrent Set.             *)
(***************************************************************************)
\* the PickPeer calls that have returned
PicksDone == {t \in PoolThreads : hpc[t] = "done" /\ hloc[t].op = "Pick"}
\* the pool with the complete membership peers
PoolWith(peers) == PoolSet(NewHTTPPoolOpts(hp.self, hp.replicas, hp.hashFn), peers)

\* C14: PickPeer(key) returns (peer, true) only if the ring's owner of key is
\* a peer other than self, and (nil, false) whenever self owns the key or
\* the ring is empty.
C14_RemoteOnlyWhenOwnerIsNotSelf ==
    \A t \in PicksDone :
        \E peers \in hloc[t].cands :
            LET owner == RingOwner(peers, hp.replicas, hp.hashFn, hloc[t].key)
            IN  /\ hloc[t].ok <=> (owner # "" /\ owner # hp.self)
                /\ ~hloc[t].ok => hloc[t].getter = <<>>

\* on one pool of two peers, one PickPeer named the other peer and another
\* found the key owned by self
C14_Witness ==
    /\ hhist.members = <<Self, Other>>
    /\ \E t1, t2 \in PicksDone :
          /\ hloc[t1].cands = {<<Self, Other>>} /\ hloc[t1].ok /\ hloc[t1].getter # <<>>
          /\ hloc[t2].cands = {<<Self, Other>>} /\ ~hloc[t2].ok

\* C20: a PickPeer concurrent with Set decides against the complete old or
\* the complete new membership: its result is the one PickPeer gives on a
\* pool holding one of them, and when it returns true the getter is non-nil
\* and is the one registered for the ring's owner in that membership.
C20_PickSeesOneMembership ==
    \A t \in PicksDone :
        \E peers \in hloc[t].cands :
            /\ [peer |-> hloc[t].getter, ok |-> hloc[t].ok] = PoolPickPeer(PoolWith(peers), hloc[t].key)
            /\ hloc[t].ok =>
                  /\ hloc[t].getter # <<>>
                  /\ hloc[t].getter =
                        <<PoolWith(peers).httpGetters[MapGet(PoolWith(peers).peers, hloc[t].key)]>>

\* a PickPeer that overlapped a Set which changed the owner of its key has
\* returned a remote peer
C20_Witness ==
    \E t \in PicksDone :
        /\ hloc[t].ok
        /\ \E old, new \in hloc[t].cands :
              /\ PoolPickPeer(PoolWith(old), hloc[t].key).ok
              /\ PoolPickPeer(PoolWith(new), hloc[t].key).ok
              /\ PoolPickPeer(PoolWith(old), hloc[t].key) # PoolPickPeer(PoolWith(new), hloc[t].key)

(***************************************************************************)
(* The registry of groups under concurrent NewGroup and GetGroup.          *)
(***************************************************************************)
\* C15: after any sequence of (possibly concurrent) NewGroup calls, each
\* name is registered to exactly one Group: a NewGroup call whose name is
\* already registered panics, releases the registry lock, and leaves
\* GetGroup(name) returning the originally registered group; GetGroup of a
\* never-registered name returns nothing.
C15_OneGroupPerName ==
    /\ DOMAIN groups = DOMAIN rhist.first
    /\ \A name \in DOMAIN groups : groups[name] = rhist.first[name]
    /\ \A n1, n2 \in DOMAIN groups : n1 # n2 => groups[n1] # groups[n2]
    /\ \A t \in RegThreads :
          /\ rpc[t] = "panicked" => (regmu.writer # t /\ t \notin regmu.readers)
          /\ (rpc[t] = "panicked" /\ rloc[t].dup) =>
                GroupOf(groups, rloc[t].name) = rhist.first[rloc[t].name]
          /\ (rloc[t].op = "New" /\ rloc[t].atCall # 0) => rpc[t] # "done"
          /\ (rpc[t] = "done" /\ rloc[t].op = "New") =>
                rloc[t].result = GroupOf(groups, rloc[t].name)
          /\ (rpc[t] = "done" /\ rloc[t].op = "Get") =>
                /\ rloc[t].result = GroupOf(rhist.first, rloc[t].name) \/ rloc[t].result = 0
                /\ rloc[t].atCall # 0 => rloc[t].result = rloc[t].atCall
                /\ rloc[t].name \notin DOMAIN groups => rloc[t].result = 0

\* a NewGroup has panicked on a registered name with the lock free again,
\* a later GetGroup of that name returned the group registered first, and
\* the other name was never registered
C15_Witness ==
    \E t1, t2 \in RegThreads :
        /\ rpc[t1] = "panicked" /\ rloc[t1].dup
        /\ regmu.writer = 0
        /\ rpc[t2] = "done" /\ rloc[t2].op = "Get"
        /\ rloc[t2].name = rloc[t1].name
        /\ rloc[t2].result # 0
        /\ rloc[t2].result = rhist.first[rloc[t1].name]
        /\ DOMAIN groups # GroupNames

\* goroutine t takes a step of a Get whose load ended in the loader's error
FailedLoadStep(t) == pc'[t] # pc[t] /\ loc'[t].err = LoaderErr

\* C16: when the user loader returns an error for key k, the Get that
\* invoked it and every Get sharing that in-flight load return that same
\* error, localLoadErrs increases by exactly one, localLoads is unchanged,
\* and neither tier gains an entry for k (bytes and items of both tiers are
\* unchanged).
C16_LoaderErrorSharedNotCached ==
    /\ [](\A t \in Threads :
            (pc[t] = "done" /\ loc[t].c \in DOMAIN hist.produced
                /\ hist.produced[loc[t].c].err = LoaderErr) =>
                /\ loc[t].ret = LoaderErr
                /\ loc[t].sink = <<>>
                /\ ~loc[t].filled)
    /\ [][\A t \in Threads :
            FailedLoadStep(t) =>
                /\ stats'.LocalLoadErrs =
                      stats.LocalLoadErrs + (IF pc[t] = "getLocally" THEN 1 ELSE 0)
                /\ stats'.LocalLoads = stats.LocalLoads
                /\ mainCache' = mainCache
                /\ hotCache' = hotCache]_vars

\* the loader failed once for a key; the Get that invoked it and a Get that
\* waited on its record both returned the error, and nothing was cached
C16_Witness ==
    \E t1, t2 \in Threads :
        /\ pc[t1] = "done" /\ pc[t2] = "done"
        /\ ~loc[t1].waited /\ loc[t2].waited
        /\ loc[t1].c = loc[t2].c
        /\ loc[t1].ret = LoaderErr /\ loc[t2].ret = LoaderErr
        /\ stats.LocalLoadErrs = 1 /\ stats.LocalLoads = 0
        /\ TierEntries(mainCache) = <<>> /\ TierEntries(hotCache) = <<>>

\* the main tier holds value under key
InMain(c, key, value) ==
    \E i \in DOMAIN TierEntries(c) : TierEntries(c)[i] = entry(key, value)

\* what C17 promises of the steps of goroutine t up to populateCache, and
\* of its return
C17_Fallback(t) ==
    /\ (pc[t] = "peerGet" /\ loc'[t].peerFailed) =>
          /\ stats'.PeerErrors = stats.PeerErrors + 1
          /\ pc'[t] = "getLocally"
          /\ hist'.loader[loc[t].key] = hist.loader[loc[t].key] + 1
          /\ loc'[t].ret = RetPending
    /\ (loc[t].peerFailed /\ pc[t] = "getLocally" /\ loc'[t].filled) =>
          /\ stats'.LocalLoads = stats.LocalLoads + 1
          /\ stats'.PeerErrors = stats.PeerErrors
          /\ loc'[t].value = LoaderValue(loc[t].key, serial')
    /\ (loc[t].peerFailed /\ pc[t] # "done" /\ pc'[t] = "done" /\ loc'[t].filled) =>
          /\ loc'[t].ret = RetNil
          /\ loc'[t].sink = <<loc'[t].value>>
          /\ loc'[t].value \in {LoaderValue(loc[t].key, n) : n \in 1..serial}

\* goroutine t, whose peer failed and whose loader succeeded, makes the
\* step of populateCache that adds to a tier
C17_Populates(t) == loc[t].peerFailed /\ pc[t] = "popAdd" /\ pc'[t] # "popAdd"

\* C17 as stated: when the peer picker names a remote owner for k and the
\* remote fetch fails, the Get does not fail for that reason: peerErrors
\* increases by one per failed attempt, the user loader is then invoked
\* locally, and if it succeeds the Get returns its value, localLoads
\* increases by one and the value is placed in the main tier.
C17_PeerFailureFallsBackAndCaches ==
    [][\A t \in Threads :
          /\ C17_Fallback(t)
          /\ C17_Populates(t) => InMain(mainCache', loc[t].key, loc[t].value)]_vars

\* C17, amended: the same, the value being placed in the main tier when the
\* group's budget B is greater than 0; with B = 0 populateCache adds nothing.
C17_PeerFailureFallsBackCachesInBudget ==
    [][\A t \in Threads :
          /\ C17_Fallback(t)
          /\ C17_Populates(t) =>
                IF cacheBytes > 0
                THEN InMain(mainCache', loc[t].key, loc[t].value)
                ELSE mainCache' = mainCache /\ hotCache' = hotCache]_vars

\* after a failed peer fetch a Get has returned its loader's value, which
\* the main tier holds
C17_Witness ==
    \E t \in Threads :
        /\ pc[t] = "done" /\ loc[t].peerFailed /\ loc[t].filled
        /\ loc[t].ret = RetNil
        /\ stats.PeerErrors >= 1 /\ stats.LocalLoads >= 1
        /\ cacheBytes > 0
        /\ InMain(mainCache, loc[t].key, loc[t].value)

\* the values tier c holds under key
Cached(c, key) ==
    {TierEntries(c)[i].value : i \in {j \in DOMAIN TierEntries(c) : TierEntries(c)[j].key = key}}

\* goroutine t, in Get, probes a tier that holds its key
HitStep(t) ==
    /\ pc'[t] # pc[t]
    /\ \/ pc[t] = "lookupMain" /\ Cached(mainCache, loc[t].key) # {}
       \/ pc[t] = "lookupHot" /\ Cached(hotCache, loc[t].key) # {}

\* the counters a cache hit leaves alone
MissCounters(st) ==
    <<st.Gets, st.Loads, st.LoadsDeduped, st.LocalLoads, st.LocalLoadErrs,
      st.PeerLoads, st.PeerErrors>>

\* one cold and one warm Get of key k, which the group owns and whose entry
\* fits in the budget, have returned
ColdThenWarm(k) ==
    /\ Quiescent
    /\ stats.Gets = 2 /\ hist.asked[k] = 2 /\ hist.sequential
    /\ ~hist.loaderFailed
    /\ cacheBytes > 0
    /\ Len(k) + ByteViewLen(LoaderValue(k, 1)) <= cacheBytes
    /\ ~PickPeer(getPeers(portPicker), pool, k).ok

\* C18: a Get for a key that is present in the main or hot tier increments
\* gets and cacheHits by one each and returns the cached value without
\* invoking the user loader, contacting a peer, entering the single-flight
\* gate, or changing loads, localLoads, peerLoads or the byte totals of
\* either tier (e.g. after one cold and one warm Get of the same key:
\* gets = 2, cacheHits = 1, localLoads = 1).
C18_CacheHitFrame ==
    /\ [](\A t \in Threads :
            pc[t] \in {"lookupMain", "lookupHot"} =>
                (loc[t].c = 0 /\ ~loc[t].waited /\ ~loc[t].filled /\ loc[t].peer = <<>>))
    /\ [](\A k \in GroupKeys :
            ColdThenWarm(k) => (stats.CacheHits = 1 /\ stats.LocalLoads = 1))
    /\ [][\A t \in Threads :
            /\ (pc[t] \in {"idle", "done"} /\ pc'[t] # pc[t]) =>
                  (stats'.Gets = stats.Gets + 1 /\ stats'.CacheHits = stats.CacheHits)
            /\ HitStep(t) =>
                  /\ pc'[t] = "done" /\ loc'[t].ret = RetNil
                  /\ loc'[t].sink \in
                        {<<v>> : v \in Cached(IF pc[t] = "lookupMain" THEN mainCache
                                              ELSE hotCache, loc[t].key)}
                  /\ stats'.CacheHits = stats.CacheHits + 1
                  /\ MissCounters(stats') = MissCounters(stats)
                  /\ cacheBytesOf(mainCache') = cacheBytesOf(mainCache)
                  /\ cacheBytesOf(hotCache') = cacheBytesOf(hotCache)
                  /\ itemsLocked(mainCache') = itemsLocked(mainCache)
                  /\ itemsLocked(hotCache') = itemsLocked(hotCache)
                  /\ <<sfmu', sfm', calls', serial'>> = <<sfmu, sfm, calls, serial>>
                  /\ hist'.loader = hist.loader
                  /\ loc'[t].c = 0]_vars

\* a cold Get loaded the key and a warm Get of it, called afterwards, hit
\* the cache: gets = 2, cacheHits = 1, localLoads = 1
C18_Witness ==
    \E k \in GroupKeys :
        /\ ColdThenWarm(k)
        /\ stats.Gets = 2 /\ stats.CacheHits = 1 /\ stats.LocalLoads = 1
        /\ stats.Loads = 1
        /\ \E t \in Threads :
              /\ pc[t] = "done" /\ loc[t].key = k /\ loc[t].ret = RetNil
              /\ loc[t].c = 0 /\ loc[t].copied
              /\ loc[t].sink = <<LoaderValue(k, 1)>>

\* where a goroutine executes the user loader or a remote peer call, or is
\* blocked on a single-flight record
Suspended == {"getLocally", "peerGet", "doWait"}

\* C19: no goroutine holds any mutex (a cache tier's mutex, the
\* single-flight map mutex, the peer picker's mutex) while it is executing
\* the user loader, executing a remote peer call, or blocked waiting on a
\* single-flight record; in particular the single-flight mutex is held only
\* while inserting or removing a record.
C19_NoMutexAcrossSuspension ==
    \A t \in Threads :
        /\ pc[t] \in Suspended => (sfmu # t /\ StepMutexes(pc[t]) = {})
        /\ sfmu = t => pc[t] \in {"doCheck", "doDelete"}

\* one goroutine executes the user loader while another holds the
\* single-flight mutex to look the key up, and later waits on the record
C19_Witness ==
    \E t1, t2 \in Threads :
        /\ pc[t1] = "getLocally"
        /\ pc[t2] = "doCheck" /\ sfmu = t2
        /\ loc[t1].key = loc[t2].key

\* C21: under any number of concurrent Get calls on a group, that group's
\* peer-picker lookup (initPeers/getPeers) runs at most once and completes
\* before any Get of the group consults the picker; under any number of
\* NewGroup calls, the process-wide server-start hook runs at most once in
\* total, during the first group creation.
C21_LazyInitsRunOnce ==
    /\ \A g \in DOMAIN gstate :
          /\ gstate[g].inits <= 1 /\ gstate[g].lookups <= 1
          /\ gstate[g].done =>
                (gstate[g].inits = 1 /\ gstate[g].lookups = 1
                    /\ gstate[g].peers = getPeers(rhist.pickerSet))
    /\ \A t \in RegThreads :
          /\ rpc[t] = "usePick" => gstate[rloc[t].g].done
          /\ (rpc[t] = "done" /\ rloc[t].op = "Use") =>
                rloc[t].peers = getPeers(rhist.pickerSet)
    /\ rhist.hooks <= 1
    /\ rhist.hooks = 1 => rhist.hookAt = 0
    /\ (rhist.hookSet /\ rhist.made >= 1) => rhist.hooks = 1
    /\ ~rhist.hookSet => rhist.hooks = 0

\* the hook ran once, and two Gets of one group, one of which found the
\* Once done only under its mutex, have both consulted the picker found by
\* the single lookup
C21_Witness ==
    /\ rhist.hookSet /\ rhist.hooks = 1
    /\ \E t1, t2 \in RegThreads :
          /\ t1 # t2
          /\ rpc[t1] = "done" /\ rloc[t1].op = "Use"
          /\ rpc[t2] = "done" /\ rloc[t2].op = "Use"
          /\ rloc[t1].g = rloc[t2].g
          /\ rloc[t2].slow
          /\ gstate[rloc[t1].g].inits = 1
          /\ rloc[t1].peers = "pool" /\ rloc[t2].peers = "pool"

(***************************************************************************)
(* The eviction sweep of populateCache (SpecSweep).                        *)
(***************************************************************************)
\* all of a list but its last element
Front(l) == SubSeq(l, 1, Len(l) - 1)

\* in this step goroutine t's sweep evicts an entry
EvictsInStep(t) ==
    /\ pc[t] = "popEvict" /\ pc'[t] # "popEvict"
    /\ itemsLocked(mainCache') + itemsLocked(hotCache') <
          itemsLocked(mainCache) + itemsLocked(hotCache)

\* in this step the tier named victim loses its oldest entry, if it has
\* one, and the other tier is left alone
OldestLeaves(victim) ==
    LET v  == IF victim = "hot" THEN hotCache ELSE mainCache
        v2 == IF victim = "hot" THEN hotCache' ELSE mainCache'
    IN  /\ TierEntries(v2) = Front(TierEntries(v))
        /\ IF victim = "hot" THEN mainCache' = mainCache ELSE hotCache' = hotCache

\* no other populateCache call has overlapped goroutine t's
SweepsAlone(t) == ~loc[t].overlapped

\* C22 as stated: in every iteration of the eviction sweep, an entry is
\* evicted only while main.bytes + hot.bytes > B, and the victim is the
\* oldest entry of the hot tier when hot.bytes > main.bytes/8 (integer
\* division) and the oldest entry of the main tier otherwise; consequently
\* whenever the sweep evicts from the main tier, hot.bytes <= main.bytes/8
\* held at that moment.
C22_SweepEvictsOverBudgetByRule ==
    [][\A t \in Threads :
          EvictsInStep(t) =>
              /\ cacheBytesOf(mainCache) + cacheBytesOf(hotCache) > cacheBytes
              /\ OldestLeaves(IF cacheBytesOf(hotCache) > cacheBytesOf(mainCache) \div 8
                              THEN "hot" ELSE "main")
              /\ itemsLocked(mainCache') < itemsLocked(mainCache) =>
                    cacheBytesOf(hotCache) <= cacheBytesOf(mainCache) \div 8]_vars

\* C22, amended: the same of the byte totals M and H that the iteration
\* read (main first, then hot): the sweep goes on to evict only when
\* M + H > B, from the hot tier when H > M/8 and from the main tier
\* otherwise, and the eviction removes the oldest entry the victim holds by
\* then; when no other populateCache call overlaps, M and H are the tiers'
\* totals at the moment of the eviction.
C22_SweepEvictsByTotalsRead ==
    [][\A t \in Threads :
          /\ (pc[t] = "popHot" /\ pc'[t] # "popHot") =>
                LET M == loc[t].mainBytes
                    H == cacheBytesOf(hotCache)
                IN  /\ pc'[t] = "popEvict" <=> M + H > cacheBytes
                    /\ pc'[t] = "popEvict" =>
                          loc'[t].victim = (IF H > M \div 8 THEN "hot" ELSE "main")
                    /\ (pc'[t] = "popEvict" /\ loc'[t].victim = "main") => H <= M \div 8
                    /\ mainCache' = mainCache /\ hotCache' = hotCache
          /\ (pc[t] = "popEvict" /\ pc'[t] # "popEvict") => OldestLeaves(loc[t].victim)
          /\ (EvictsInStep(t) /\ SweepsAlone(t)) =>
                /\ cacheBytesOf(mainCache) + cacheBytesOf(hotCache) > cacheBytes
                /\ loc[t].victim = (IF cacheBytesOf(hotCache) > cacheBytesOf(mainCache) \div 8
                                    THEN "hot" ELSE "main")]_vars

\* a sweep that no other call overlaps has read totals over the budget and
\* is about to evict from the main tier, the hot tier holding an entry and
\* no more than an eighth of the main tier's bytes
C22_Witness ==
    \E t \in Threads :
        /\ pc[t] = "popEvict" /\ loc[t].victim = "main"
        /\ ~loc[t].overlapped
        /\ cacheBytesOf(hotCache) >= 1
        /\ cacheBytesOf(hotCache) = cacheBytesOf(mainCache) \div 8
        /\ itemsLocked(mainCache) >= 2

\* goroutine t holds a value its Get fetched from the remote owner
Fetched(t) == loc[t].peer # <<>> /\ ~loc[t].peerFailed /\ loc[t].value = PeerValue(loc[t].key)

\* every key asked so far has a remote owner, and no fetch has failed
RemoteOwnerAnswers ==
    /\ stats.PeerErrors = 0
    /\ \A k \in GroupKeys :
          hist.asked[k] > 0 => PickPeer(getPeers(portPicker), pool, k).ok

\* C23: a Get whose key is fetched successfully from a remote owner
\* increments peerLoads by one, never invokes the local loader and never
\* adds the key to the main tier; the only cache that can receive the
\* fetched value is the hot tier (chosen nondeterministically, about one
\* fetch in ten).  With a remote owner that always answers, the main tier
\* stays empty after any number of Gets.
C23_PeerFetchStaysOutOfMain ==
    /\ [](\A i \in DOMAIN TierEntries(mainCache) :
            TierEntries(mainCache)[i].value # PeerValue(TierEntries(mainCache)[i].key))
    /\ [](\A t \in Threads :
            (pc[t] = "done" /\ loc[t].c # 0 /\ ~loc[t].waited /\ ~loc[t].reprobed
                /\ ~loc[t].filled /\ loc[t].ret = RetNil) =>
                  (loc[t].sink = <<PeerValue(loc[t].key)>> /\ ~loc[t].peerFailed))
    /\ [](RemoteOwnerAnswers =>
            (TierEntries(mainCache) = <<>> /\ stats.LocalLoads = 0
                /\ \A k \in GroupKeys : hist.loader[k] = 0))
    /\ [][\A t \in Threads :
            /\ (pc[t] = "peerGet" /\ pc'[t] # "peerGet" /\ ~loc'[t].peerFailed) =>
                  /\ loc'[t].value = PeerValue(loc[t].key)
                  /\ hist'.loader = hist.loader
                  /\ mainCache' = mainCache /\ hotCache' = hotCache
                  /\ IF pc'[t] = "doDone"
                     THEN stats'.PeerLoads = stats.PeerLoads + 1
                     ELSE /\ pc'[t] = "popAdd" /\ loc'[t].target = "hot"
                          /\ stats'.PeerLoads = stats.PeerLoads
            /\ (Fetched(t) /\ pc[t] \in {"popAdd"} \cup PopPcs /\ pc'[t] # pc[t]) =>
                  /\ loc[t].key \in TierKeys(mainCache') => loc[t].key \in TierKeys(mainCache)
                  /\ hist'.loader = hist.loader
                  /\ stats'.LocalLoads = stats.LocalLoads
                  /\ stats'.PeerLoads =
                        stats.PeerLoads + (IF pc'[t] = "doDone" THEN 1 ELSE 0)
                  /\ (pc[t] = "popAdd" /\ cacheBytes > 0) =>
                        (mainCache' = mainCache
                            /\ entry(loc[t].key, loc[t].value) = Head(TierEntries(hotCache')))]_vars

\* with a remote owner that answered every fetch, two Gets have returned
\* the fetched value, one of them left it in the hot tier, and the main
\* tier is empty
C23_Witness ==
    /\ RemoteOwnerAnswers
    /\ Quiescent
    /\ stats.PeerLoads = 2
    /\ TierEntries(mainCache) = <<>>
    /\ TierEntries(hotCache) # <<>>
    /\ \E t \in Threads :
          /\ pc[t] = "done" /\ loc[t].ret = RetNil
          /\ loc[t].sink = <<PeerValue(loc[t].key)>>

\* the Gets called with a sink so far
Asked == hist.asked["a"] + hist.asked["bb"]

\* C24: on a group with budget B <= 0, lookupCache always reports a miss
\* and populateCache changes nothing: after any sequence of Gets both tiers
\* hold 0 items and 0 bytes, cacheHits stays 0, and every Get with a sink
\* goes through load.
C24_NoBudgetNoCaching ==
    cacheBytes <= 0 =>
        /\ mainCache = ZeroTier /\ hotCache = ZeroTier
        /\ itemsLocked(mainCache) = 0 /\ itemsLocked(hotCache) = 0
        /\ cacheBytesOf(mainCache) = 0 /\ cacheBytesOf(hotCache) = 0
        /\ stats.CacheHits = 0
        /\ \A t \in Threads :
              /\ pc[t] \notin {"lookupHot", "fnLookupHot"} \cup PopPcs
              /\ ~loc[t].reprobed
              /\ (pc[t] = "done" /\ loc[t].ret # NilSinkErr) => loc[t].c # 0
        /\ stats.Loads = Asked - Cardinality({t \in Threads : pc[t] = "lookupMain"})

\* on a group with a negative budget a second Get of a key, called after
\* the first had returned its loaded value, has loaded it again
C24_Witness ==
    /\ cacheBytes < 0
    /\ Quiescent
    /\ hist.sequential
    /\ \E k \in GroupKeys : hist.asked[k] = 2 /\ hist.loader[k] = 2
    /\ stats.Loads = 2 /\ stats.LocalLoads = 2 /\ stats.CacheHits = 0

\* where the goroutine that registered a single-flight record is until it
\* has deleted it: in the producer, at c.wg.Done(), or at the delete
OwnerPcs == FnPcs \cup {"doDone", "doDelLock", "doDelete"}

\* C25: in every reachable state of the single-flight coordinator, the map
\* holds a record for a key if and only if a producer invocation for that
\* key is currently in progress in this process (the load of the Do call
\* that registered the record, up to its delete).
C25_RecordIffLoadInProgress ==
    \A k \in GroupKeys :
        InFlight(sfm, k) <=>
            \E t \in Threads :
                pc[t] \in OwnerPcs /\ loc[t].key = k /\ loc[t].c = sfm[k]

\* C26: at every quiescent point of a Group, the counter Loads equals Gets
\* minus CacheHits.
C26_LoadsIsGetsMinusHits ==
    Quiescent => stats.Loads = stats.Gets - stats.CacheHits

\* the group's picker names a remote owner for key k
RemoteOwned(k) == PickPeer(getPeers(portPicker), pool, k).ok

C28_IndexMatchesList ==
    /\ [](/\ \A k \in lru.cache : Cardinality(ElemsOf(lru, k)) = 1
          /\ \A k \in Keys : Cardinality(ElemsOf(lru, k)) <= 1
          /\ \A i \in 1..Len(lru.ll) : lru.ll[i].key \in lru.cache
          /\ LruLen(lru) = Cardinality(lru.cache)
          /\ lru.isnil => (lru.ll = <<>> /\ lru.cache = {})
          /\ lastOp.op = "Clear" => (LruLen(lru) = 0 /\ lru.cache = {}))
    /\ [][(lastOp.op = "Clear" /\ lastOp'.op = "Add") =>
             /\ LruLen(lru') = 1
             /\ lru'.cache = {lastOp'.key}
             /\ lru'.ll[1].key = lastOp'.key]_vars

\* Clear has just emptied an engine without callback that held two entries
C28_Witness ==
    /\ ~lru.OnEvicted
    /\ lastOp.op = "Clear"
    /\ Len(lastOp.before) = 2
    /\ LruLen(lru) = 0
    /\ clock < MaxOps

\* the entries of a list other than the one stored under key, in list order
Others(ll, key) == SelectSeq(ll, LAMBDA e : e.key # key)

\* C29: LRU Add(key, value) for a key already present replaces the stored
\* value and makes the key most recently used, while leaving Len and every
\* other entry unchanged: no entry is evicted and the eviction callback is
\* not invoked for the replaced value.
C29_AddPresentKeyReplaces ==
    [][\A key \in Keys, value \in Values :
          (LruAdd(key, value) /\ key \in lru.cache) =>
             /\ lru'.ll[1] = entry(key, value)
             /\ LruLen(lru') = LruLen(lru)
             /\ lru'.cache = lru.cache
             /\ Others(lru'.ll, key) = Others(lru.ll, key)
             /\ lru'.MaxEntries = lru.MaxEntries
             /\ evicted' = <<>>]_vars

\* a full engine with a callback has just had the value of its least
\* recently used key replaced by a different one
C29_Witness ==
    /\ lru.OnEvicted
    /\ lastOp.op = "Add"
    /\ lastOp.hit
    /\ Len(lastOp.before) = 2
    /\ lru.MaxEntries = 2
    /\ lastOp.before[2].key = lastOp.key
    /\ lastOp.before[2].value # lru.ll[1].value
    /\ lru.ll[1].key = lastOp.key
    /\ evicted = <<>>

(***************************************************************************)
(* Termination of populateCache (SpecSweepFair).                           *)
(***************************************************************************)
\* goroutine t is inside populateCache
Populating(t) == pc[t] \in {"popAdd"} \cup PopPcs

\* in this step goroutine t's sweep calls victim.removeOldest()
RemoveOldestStep(t) == pc[t] = "popEvict" /\ pc'[t] # "popEvict"

\* the tier goroutine t's sweep has chosen as victim
VictimTier(t) == IF loc[t].victim = "hot" THEN hotCache ELSE mainCache

\* the cost of the entry goroutine t adds
CostOf(t) == Len(loc[t].key) + Len(loc[t].value)

\* every populateCache call returns; one whose entry costs more than B
\* returns with the entry evicted, and its load returns nil
SweepTerminates ==
    /\ \A t \in Threads : Populating(t) ~> (pc[t] = "doDone")
    /\ [](\A t \in Threads :
             /\ (pc[t] = "doDone" /\ CostOf(t) > cacheBytes) =>
                   loc[t].key \notin TierKeys(mainCache) \cup TierKeys(hotCache)
             /\ pc[t] = "done" => loc[t].ret = RetNil)

\* C30 as stated: every populateCache call terminates: each iteration of
\* the eviction sweep made while the tiers exceed B removes an entry from a
\* non-empty victim tier, so the loop cannot spin on an empty tier; this
\* includes an entry whose own cost exceeds B (it is evicted by its own
\* sweep and the Get still returns its value without error) and entries of
\* cost 0.
C30_EverySweepIterationEvicts ==
    /\ SweepTerminates
    /\ [][\A t \in Threads :
             (/\ RemoveOldestStep(t)
              /\ cacheBytesOf(mainCache) + cacheBytesOf(hotCache) > cacheBytes) =>
                 /\ itemsLocked(VictimTier(t)) > 0
                 /\ EvictsInStep(t)]_vars

\* C30, amended: every populateCache call terminates; each iteration of the
\* eviction sweep of a call that no other populateCache call overlaps
\* removes the oldest entry of a non-empty victim tier, and an entry whose
\* own cost exceeds B is gone from the tiers when its call returns, the
\* load returning without error.
C30_PopulateCacheTerminates ==
    /\ SweepTerminates
    /\ [][\A t \in Threads :
             (RemoveOldestStep(t) /\ SweepsAlone(t)) =>
                 /\ cacheBytesOf(mainCache) + cacheBytesOf(hotCache) > cacheBytes
                 /\ itemsLocked(VictimTier(t)) > 0
                 /\ EvictsInStep(t)
                 /\ OldestLeaves(loc[t].victim)]_vars

\* a call that no other overlapped has returned after its sweep evicted the
\* entry it added, whose cost exceeds B, while the hot tier keeps an entry
\* of cost 0
C30_Witness ==
    \E t \in Threads :
        /\ pc[t] = "doDone"
        /\ ~loc[t].overlapped
        /\ CostOf(t) > cacheBytes
        /\ loc[t].target = "main"
        /\ loc[t].key \notin TierKeys(mainCache) \cup TierKeys(hotCache)
        /\ mainCache.nevict >= 1
        /\ TierEntries(hotCache) = <<entry("", <<>>)>>

(***************************************************************************)
(* The two tiers of a Group (Spec).                                        *)
(***************************************************************************)
\* C31: in every reachable state of a Group, under any interleaving of
\* concurrent Gets, local loads, peer fetches and evictions, no key is
\* present in the main tier and the hot tier at the same time.
C31_TiersDisjoint == TierKeys(mainCache) \cap TierKeys(hotCache) = {}

\* a key owned by a remote peer was fetched into the hot tier and evicted
\* from it, and, a later fetch having failed, is now held by the main tier
C31_Witness ==
    \E k \in GroupKeys :
        /\ RemoteOwned(k)
        /\ \A k2 \in GroupKeys \ {k} : ~RemoteOwned(k2)
        /\ hotCache.nevict >= 1
        /\ k \in TierKeys(mainCache)
        /\ stats.PeerErrors >= 1

(***************************************************************************)
(* Termination of Get (SpecFair).                                          *)
(***************************************************************************)
\* goroutine t is inside Get
InGet(t) == pc[t] \notin {"idle", "done"}

\* C32: provided every user-loader invocation and every remote peer call
\* eventually returns (with a value or an error), every Get call eventually
\* returns under fair scheduling, no single-flight waiter waits forever,
\* and once all Gets have returned the single-flight map holds no records.
C32_EveryGetReturns ==
    /\ \A t \in Threads : InGet(t) ~> (pc[t] = "done")
    /\ \A t \in Threads : (pc[t] = "doWait") ~> (pc[t] = "done" /\ loc[t].waited)
    /\ [](Quiescent => (sfm = <<>> /\ sfmu = 0))

\* both goroutines have returned from Gets of one key, one of them after
\* waiting for the other's load, and the single-flight map is empty
C32_Witness ==
    /\ Quiescent
    /\ sfm = <<>>
    /\ \E t \in Threads : pc[t] = "done" /\ loc[t].waited /\ loc[t].ret = RetNil
    /\ \E t \in Threads : pc[t] = "done" /\ ~loc[t].waited /\ loc[t].ret = RetNil
    /\ stats.LoadsDeduped = 1
    /\ stats.Loads = 2

(***************************************************************************)
(* The load counters of a Group (Spec).                                    *)
(***************************************************************************)
\* the goroutines whose load has counted LoadsDeduped and not yet its
\* outcome
Undecided ==
    {t \in Threads :
        \/ pc[t] \in {"pick", "peerGet", "getLocally"}
        \/ pc[t] \in {"popAdd"} \cup PopPcs /\ loc[t].target = "hot"}

\* the loads that have ended in a peer load, a local load or a failed
\* local load
Outcomes == stats.PeerLoads + stats.LocalLoads + stats.LocalLoadErrs

\* C33: at every quiescent point of a Group, LoadsDeduped = PeerLoads +
\* LocalLoads + LocalLoadErrs (every load that passes the single-flight
\* re-probe ends in exactly one of: successful peer load, successful local
\* load, failed local load), and LoadsDeduped <= Loads <= Gets.
C33_LoadOutcomesAddUp ==
    /\ Quiescent => stats.LoadsDeduped = Outcomes
    /\ stats.LoadsDeduped = Outcomes + Cardinality(Undecided)
    /\ stats.LoadsDeduped <= stats.Loads
    /\ stats.Loads <= stats.Gets

\* no Get is in progress and the three loads made have ended one in each
\* outcome, the failed local load after a failed peer fetch
C33_Witness ==
    /\ Quiescent
    /\ stats.PeerLoads = 1
    /\ stats.LocalLoads = 1
    /\ stats.LocalLoadErrs = 1
    /\ stats.PeerErrors >= 1
    /\ stats.LoadsDeduped = 3

====
